---- MODULE Spec2Model ----
(***************************************************************************)
(* FlowHaven: the field encryption layer (src/lib/crypto.ts), the session  *)
(* key store, the read-through cache with its rate limiter and the entity  *)
(* mutation handlers that invalidate it.                                   *)
(*                                                                         *)
(* Strings are sequences of Unicode code points (a lone surrogate code     *)
(* unit of a JavaScript string is kept as its own element), byte arrays    *)
(* are sequences over 0..255.                                              *)
(***************************************************************************)
EXTENDS Integers, Sequences, FiniteSets, TLC

\* ------------------------------------------------------------------ bounds
MaxStrLen == 2

\* ------------------------------------------------- crypto.ts constants
KEY_LENGTH == 256
SALT_LENGTH == 16
IV_LENGTH == 12
\* AES-GCM appends a 128-bit authentication tag to the ciphertext.
GCM_TAG_LENGTH == 16

\* ------------------------------------------------------------ sequences
RECURSIVE SumSeq(_)
SumSeq(s) == IF s = <<>> THEN 0 ELSE Head(s) + SumSeq(Tail(s))

Fill(n, b) == [i \in 1..n |-> b]

RECURSIVE Flatten(_)
Flatten(ss) == IF ss = <<>> THEN <<>> ELSE Head(ss) \o Flatten(Tail(ss))

Pow(b, e) == IF e = 0 THEN 1 ELSE IF e = 1 THEN b ELSE IF e = 2 THEN b * b ELSE b * b * b

\* ------------------------------------------------------- code points
CP_A == 65
CP_EACUTE == 233
CP_EURO == 8364
CP_EMOJI == 128512
CP_BOM == 65279
CP_REPLACEMENT == 65533
CP_LONE_SURROGATE == 55296

IsSurrogate(cp) == cp >= 55296 /\ cp <= 57343

\* A string with no unpaired surrogate code unit.
WellFormed(str) == \A i \in 1..Len(str) : ~IsSurrogate(str[i])

\* ------------------------------------------------ TextEncoder / TextDecoder
\* TextEncoder.encode: UTF-8, an unpaired surrogate is encoded as U+FFFD.
Utf8EncodeCp(cp) ==
    LET c == IF IsSurrogate(cp) THEN CP_REPLACEMENT ELSE cp IN
    IF c < 128 THEN << c >>
    ELSE IF c < 2048 THEN << 192 + (c \div 64), 128 + (c % 64) >>
    ELSE IF c < 65536 THEN
        << 224 + (c \div 4096), 128 + ((c \div 64) % 64), 128 + (c % 64) >>
    ELSE << 240 + (c \div 262144), 128 + ((c \div 4096) % 64),
            128 + ((c \div 64) % 64), 128 + (c % 64) >>

TextEncode(str) == Flatten([i \in 1..Len(str) |-> Utf8EncodeCp(str[i])])

IsCont(bytes, i) == i <= Len(bytes) /\ bytes[i] >= 128 /\ bytes[i] < 192

\* UTF-8 decoding in replacement mode (fatal: false): a byte that starts no
\* valid sequence decodes to U+FFFD.
RECURSIVE Utf8Decode(_)
Utf8Decode(bytes) ==
    IF bytes = <<>> THEN <<>>
    ELSE LET b == bytes[1]
             rest(n) == SubSeq(bytes, n + 1, Len(bytes))
         IN
         IF b < 128 THEN << b >> \o Utf8Decode(rest(1))
         ELSE IF b >= 194 /\ b < 224 /\ IsCont(bytes, 2) THEN
             << (b - 192) * 64 + (bytes[2] - 128) >> \o Utf8Decode(rest(2))
         ELSE IF b >= 224 /\ b < 240 /\ IsCont(bytes, 2) /\ IsCont(bytes, 3) THEN
             LET cp == (b - 224) * 4096 + (bytes[2] - 128) * 64 + (bytes[3] - 128) IN
             IF cp < 2048 \/ IsSurrogate(cp)
             THEN << CP_REPLACEMENT >> \o Utf8Decode(rest(1))
             ELSE << cp >> \o Utf8Decode(rest(3))
         ELSE IF b >= 240 /\ b < 245 /\ IsCont(bytes, 2) /\ IsCont(bytes, 3)
                 /\ IsCont(bytes, 4) THEN
             LET cp == (b - 240) * 262144 + (bytes[2] - 128) * 4096
                       + (bytes[3] - 128) * 64 + (bytes[4] - 128) IN
             IF cp < 65536 \/ cp > 1114111
             THEN << CP_REPLACEMENT >> \o Utf8Decode(rest(1))
             ELSE << cp >> \o Utf8Decode(rest(4))
         ELSE << CP_REPLACEMENT >> \o Utf8Decode(rest(1))

\* new TextDecoder().decode: ignoreBOM is false by default, so a leading
\* U+FEFF is consumed as a byte order mark and is not part of the output.
TextDecode(bytes) ==
    LET s == Utf8Decode(bytes) IN
    IF s # <<>> /\ s[1] = CP_BOM THEN Tail(s) ELSE s

\* ------------------------------------------------------------- btoa / atob
B64Char(v) ==
    IF v < 26 THEN 65 + v
    ELSE IF v < 52 THEN 97 + (v - 26)
    ELSE IF v < 62 THEN 48 + (v - 52)
    ELSE IF v = 62 THEN 43 ELSE 47

B64_PAD == 61

IsB64Char(c) ==
    \/ (c >= 65 /\ c <= 90)
    \/ (c >= 97 /\ c <= 122)
    \/ (c >= 48 /\ c <= 57)
    \/ c = 43
    \/ c = 47

B64Val(c) ==
    IF c >= 65 /\ c <= 90 THEN c - 65
    ELSE IF c >= 97 /\ c <= 122 THEN c - 97 + 26
    ELSE IF c >= 48 /\ c <= 57 THEN c - 48 + 52
    ELSE IF c = 43 THEN 62 ELSE 63

\* btoa(String.fromCharCode(...bytes)): every char code is below 256, so
\* btoa never throws here.
Btoa(bytes) ==
    LET n == Len(bytes)
        at(i) == IF i <= n THEN bytes[i] ELSE 0
        triple(q) == at(3 * q + 1) * 65536 + at(3 * q + 2) * 256 + at(3 * q + 3)
    IN [j \in 1..(4 * ((n + 2) \div 3)) |->
          LET q == (j - 1) \div 4
              p == (j - 1) % 4
          IN IF 3 * q + p > n THEN B64_PAD
             ELSE B64Char((triple(q) \div Pow(64, 3 - p)) % 64)]

\* atob: forgiving-base64 decode. Returns [ok, bytes]; ok = FALSE stands
\* for the InvalidCharacterError it throws.
Atob(str) ==
    LET m0 == Len(str)
        pads == IF m0 % 4 = 0 /\ m0 >= 1 /\ str[m0] = B64_PAD
                THEN (IF m0 >= 2 /\ str[m0 - 1] = B64_PAD THEN 2 ELSE 1)
                ELSE 0
        data == SubSeq(str, 1, m0 - pads)
        m == Len(data)
        at(i) == IF i <= m THEN B64Val(data[i]) ELSE 0
        quad(q) == at(4 * q + 1) * 262144 + at(4 * q + 2) * 4096
                   + at(4 * q + 3) * 64 + at(4 * q + 4)
    IN IF m % 4 = 1 \/ \E i \in 1..m : ~IsB64Char(data[i])
       THEN [ok |-> FALSE, bytes |-> <<>>]
       ELSE [ok |-> TRUE,
             bytes |-> [i \in 1..((m * 6) \div 8) |->
                          LET q == (i - 1) \div 3
                              r == (i - 1) % 3
                          IN (quad(q) \div Pow(256, 2 - r)) % 256]]

\* --------------------------------------------------------------- AES-GCM
\* A CryptoKey is modelled by its raw bytes (KEY_LENGTH bits).  The cipher
\* is a keyed, nonce-dependent byte substitution followed by a tag over key,
\* nonce and ciphertext: decryption under another key or nonce, or of an
\* altered ciphertext, fails the tag check.
KeyStream(key, iv) == SumSeq(key) + SumSeq(iv)

GcmTag(key, iv, body) ==
    LET t == 3 * KeyStream(key, iv) + SumSeq(body)
    IN [j \in 1..GCM_TAG_LENGTH |-> (t + j) % 256]

GcmEncrypt(key, iv, pt) ==
    LET ks == KeyStream(key, iv)
        body == [i \in 1..Len(pt) |-> (pt[i] + ks + i) % 256]
    IN body \o GcmTag(key, iv, body)

\* Returns [ok, bytes]; ok = FALSE stands for the OperationError that
\* crypto.subtle.decrypt rejects with.
GcmDecrypt(key, iv, ct) ==
    IF Len(ct) < GCM_TAG_LENGTH \/ Len(iv) = 0
    THEN [ok |-> FALSE, bytes |-> <<>>]
    ELSE LET n == Len(ct) - GCM_TAG_LENGTH
             body == SubSeq(ct, 1, n)
             tag == SubSeq(ct, n + 1, Len(ct))
             ks == KeyStream(key, iv)
         IN IF tag # GcmTag(key, iv, body)
            THEN [ok |-> FALSE, bytes |-> <<>>]
            ELSE [ok |-> TRUE,
                  bytes |-> [i \in 1..n |-> (body[i] + 256 * (1 + Len(ct)) - ks - i) % 256]]

\* ------------------------------------------------------- encrypt / decrypt
\* encrypt(plaintext, key); iv and salt are the two getRandomValues draws.
encrypt(plaintext, key, iv, salt) ==
    Btoa(salt \o iv \o GcmEncrypt(key, iv, TextEncode(plaintext)))

UnpackIv_NoSaltSkip(packed) == SubSeq(packed, 1, IV_LENGTH)

UnpackIv(packed) == SubSeq(packed, SALT_LENGTH + 1, SALT_LENGTH + IV_LENGTH)

UnpackCiphertext(packed) == SubSeq(packed, SALT_LENGTH + IV_LENGTH + 1, Len(packed))

\* decrypt(cipherBase64, key): [ok, val]; ok = FALSE stands for a throw
\* (atob's InvalidCharacterError or the cipher's OperationError).
decrypt(cipherBase64, key) ==
    LET packed == Atob(cipherBase64) IN
    IF ~packed.ok THEN [ok |-> FALSE, val |-> <<>>]
    ELSE LET pt == GcmDecrypt(key, UnpackIv(packed.bytes), UnpackCiphertext(packed.bytes)) IN
         IF ~pt.ok THEN [ok |-> FALSE, val |-> <<>>]
         ELSE [ok |-> TRUE, val |-> TextDecode(pt.bytes)]

\* ------------------------------------------------------------ input sets
Alphabet == {CP_A, CP_EACUTE, CP_EURO, CP_EMOJI, CP_BOM, CP_LONE_SURROGATE}

Strings == UNION {[1..n -> Alphabet] : n \in 0..MaxStrLen}

RawKey(b) == Fill(KEY_LENGTH \div 8, b)

Keys == {RawKey(17), RawKey(34)}

Ivs == {Fill(IV_LENGTH, 3), Fill(IV_LENGTH, 4)}

Salts == {Fill(SALT_LENGTH, 1), Fill(SALT_LENGTH, 2)}

NoKey == <<>>

\* ============================================================= cache store
\* Cache keys, patterns and stored strings are sequences of characters; an
\* entity name or a page number that no operation looks into is one element.
TTL_TASKS == 300

TTL_HABITS == 600

AUTH_LIMIT == 180

AUTH_WINDOW_SEC == 60

MS_PER_SEC == 1000

IP_LIMIT == 240

USER_LIMIT == 120

READ_WINDOW_SEC == 60

\* The clock (Date.now(), in ms) stops advancing here.
MaxClock == 300000

TTL(entity) == IF entity = "tasks" THEN TTL_TASKS ELSE TTL_HABITS

CacheEntities == {"tasks", "habits"}

Callers == {"c1"}

\* InvalidateBegin is taken while the auth counter is below this or near
\* the limit: the counts in between behave like the first ones.
MaxFreshCalls == 1

\* ... and until the counter stands this far over the limit.
MaxOverLimit == 0

U1 == << "u", "1" >>

U12 == << "u", "1", "2" >>

TasksKey_Shared(userId, limit, offset) == << "tasks", ":", limit, ":", offset >>

TasksKey(userId, limit, offset) == << "tasks", ":" >> \o userId \o << ":", limit, ":", offset >>

HabitsKey(userId) == << "habits", ":" >> \o userId

UserIds == { U1, U12 }

\* The cachedQuery calls the core fetchers make.
QueryShapes ==
    { [entity |-> "tasks", user |-> U1, key |-> TasksKey(U1, "50", "0")],
      [entity |-> "tasks", user |-> U1, key |-> TasksKey(U1, "25", "0")],
      [entity |-> "habits", user |-> U1, key |-> HabitsKey(U1)],
      [entity |-> "tasks", user |-> U12, key |-> TasksKey(U12, "50", "0")] }

\* The calls that are made in the runs followed here: the two pages of one
\* user's tasks.
CalledShapes == { q \in QueryShapes : q.entity = "tasks" /\ q.user = U1 }

CacheKeys == { q.key : q \in QueryShapes }

\* getUserId's rate-limit key for the one client address of the model.
AuthRateKey == << "rl", ":", "auth", ":", "ip", ":", "unknown" >>

\* allowReadBurst's keys for fetchTasks: scope "tasks", the same address,
\* the resolved user.
IpRateKey == << "rl", ":", "tasks", ":", "ip", ":", "unknown" >>

UserRateKey == << "rl", ":", "tasks", ":", "user", ":" >> \o U1

\* The key checkRateLimit is exercised on by itself.
RateKey == << "rl", ":", "k" >>

AllKeys == CacheKeys \cup { AuthRateKey, IpRateKey, UserRateKey, RateKey }

InvalidationPattern(entity, userId) == << entity, ":" >> \o userId \o << "*" >>

\* new RegExp('^' + pattern with '*' -> '.*' + '$').test(key)
RECURSIVE GlobMatch(_, _)
GlobMatch(p, s) ==
    IF p = <<>> THEN s = <<>>
    ELSE IF Head(p) = "*"
    THEN GlobMatch(Tail(p), s) \/ (s # <<>> /\ GlobMatch(p, Tail(s)))
    ELSE s # <<>> /\ Head(s) = Head(p) /\ GlobMatch(Tail(p), Tail(s))

DigitChars == << "0", "1", "2", "3", "4", "5", "6", "7", "8", "9" >>

IsDigit(c) == \E i \in 1..10 : DigitChars[i] = c

DigitVal(c) == (CHOOSE i \in 1..10 : DigitChars[i] = c) - 1

\* String(n)
RECURSIVE NumToStr(_)
NumToStr(n) ==
    IF n < 10 THEN << DigitChars[n + 1] >>
    ELSE NumToStr(n \div 10) \o << DigitChars[(n % 10) + 1] >>

RECURSIVE DigitsVal(_)
DigitsVal(s) ==
    IF s = <<>> THEN 0
    ELSE 10 * DigitsVal(SubSeq(s, 1, Len(s) - 1)) + DigitVal(s[Len(s)])

\* Number(str) || 0
StrToNum(s) ==
    IF s # <<>> /\ \A i \in 1..Len(s) : IsDigit(s[i]) THEN DigitsVal(s) ELSE 0

\* The row lists a query returns; a row is its id.
RowLists == { <<>>, << 1, 2 >> }

RECURSIVE JoinRows(_)
JoinRows(rows) ==
    IF rows = <<>> THEN <<>>
    ELSE IF Len(rows) = 1 THEN NumToStr(rows[1])
    ELSE NumToStr(rows[1]) \o << "," >> \o JoinRows(Tail(rows))

\* JSON.stringify(result)
Stringify(rows) == << "[" >> \o JoinRows(rows) \o << "]" >>

RECURSIVE ParseItems(_, _)
ParseItems(s, cur) ==
    IF s = <<>>
    THEN IF cur = <<>> THEN [ok |-> FALSE, val |-> <<>>]
         ELSE [ok |-> TRUE, val |-> << DigitsVal(cur) >>]
    ELSE IF Head(s) = ","
    THEN IF cur = <<>> THEN [ok |-> FALSE, val |-> <<>>]
         ELSE LET rest == ParseItems(Tail(s), <<>>)
              IN  [ok |-> rest.ok, val |-> << DigitsVal(cur) >> \o rest.val]
    ELSE IF IsDigit(Head(s)) THEN ParseItems(Tail(s), cur \o << Head(s) >>)
    ELSE [ok |-> FALSE, val |-> <<>>]

\* JSON.parse(cached): [ok, val], ok FALSE when it throws.
Parse(s) ==
    IF Len(s) < 2 \/ s[1] # "[" \/ s[Len(s)] # "]" THEN [ok |-> FALSE, val |-> <<>>]
    ELSE IF Len(s) = 2 THEN [ok |-> TRUE, val |-> <<>>]
    ELSE ParseItems(SubSeq(s, 2, Len(s) - 1), <<>>)

\* `if (cached)` on a string | null.
Truthy_NonEmptyList(ret) == ~ret.isNull /\ ret.str # <<>> /\ ret.str # << "[", "]" >>

Truthy(ret) == ~ret.isNull /\ ret.str # <<>>

\* ---- makeMemoryRedis, as functions of the store and Date.now()
Missing == [present |-> FALSE, value |-> <<>>, expiresAt |-> 0]

NullRet == [isNull |-> TRUE, str |-> <<>>]

EmptyStore == [k \in AllKeys |-> Missing]

isExpired_Strict(entry, t) == entry.present /\ entry.expiresAt # 0 /\ entry.expiresAt < t

isExpired(entry, t) == entry.present /\ entry.expiresAt # 0 /\ entry.expiresAt <= t

cleanup(store, key, t) ==
    IF isExpired(store[key], t) THEN [store EXCEPT ![key] = Missing] ELSE store

memGet(store, key, t) ==
    LET s == cleanup(store, key, t)
    IN  [store |-> s,
         ret |-> IF s[key].present THEN [isNull |-> FALSE, str |-> s[key].value] ELSE NullRet]

memSet(store, key, value, ttl, t) ==
    [store |-> [store EXCEPT ![key] =
                    [present |-> TRUE, value |-> value,
                     expiresAt |-> IF ttl > 0 THEN t + ttl * MS_PER_SEC ELSE 0]],
     ret |-> "OK"]

memDel(store, keys) ==
    [store |-> [k \in AllKeys |-> IF k \in keys THEN Missing ELSE store[k]],
     ret |-> Cardinality({ k \in keys : store[k].present })]

memKeys(store, pattern, t) ==
    LET s == [k \in AllKeys |-> IF isExpired(store[k], t) THEN Missing ELSE store[k]]
    IN  [store |-> s, ret |-> { k \in AllKeys : s[k].present /\ GlobMatch(pattern, k) }]

memIncr(store, key, t) ==
    LET s == cleanup(store, key, t)
        next == (IF s[key].present THEN StrToNum(s[key].value) ELSE 0) + 1
    IN  [store |-> [s EXCEPT ![key] = [present |-> TRUE, value |-> NumToStr(next),
                                       expiresAt |-> s[key].expiresAt]],
         ret |-> next]

memExpire(store, key, seconds, t) ==
    IF ~store[key].present THEN [store |-> store, ret |-> 0]
    ELSE [store |-> [store EXCEPT ![key].expiresAt = t + seconds * MS_PER_SEC], ret |-> 1]

IdleCall == [pc |-> "idle", entity |-> "none", user |-> <<>>, key |-> <<>>, result |-> <<>>,
             invoked |-> 0, fresh |-> FALSE, expectHit |-> FALSE, expected |-> <<>>,
             rows |-> <<>>]

IdleInv == [pc |-> "idle", entity |-> "none", user |-> <<>>, keys |-> {}, quiet |-> TRUE,
            skipped |-> FALSE]

NoMiss == [key |-> <<>>, result |-> <<>>, valid |-> FALSE, until |-> 0]

NoFetch == [pc |-> "idle", user |-> <<>>, authOk |-> "unchecked", ipOk |-> "unchecked",
            userOk |-> "unchecked", touchedCache |-> FALSE, touchedDb |-> FALSE,
            readRaised |-> FALSE, unparsable |-> FALSE, queryFailed |-> FALSE,
            writeRaised |-> FALSE, wroteCache |-> FALSE, invoked |-> 0, rows |-> <<>>,
            result |-> <<>>, isFallback |-> FALSE, raised |-> FALSE]

\* The limits and windows checkRateLimit is exercised with, and how far the
\* clock of that exercise runs.
MaxLimit == 2

RateLimits == 1..MaxLimit

RateWindows == { 1, 2 }

RateTickMs == MS_PER_SEC \div 2

MaxRateClock == 4 * MS_PER_SEC

NoRateCall == [limit |-> 0, windowSec |-> 0, calls |-> 0, start |-> 0, faulted |-> FALSE,
               answered |-> FALSE, allowed |-> FALSE, remaining |-> 0, raised |-> FALSE,
               failedCall |-> FALSE, deniedBefore |-> FALSE, allowedInWindow |-> 0]

\* The store interface (RedisLike, redis.ts:3-10).
StoreOps == { "get", "set", "del", "keys", "incr", "expire" }

\* An incr on the proxy is followed while the count is below this.
MaxProxyCount == 2

NoProxyCall == [op |-> "none", failed |-> FALSE, raised |-> FALSE, ret |-> <<>>,
                memRet |-> <<>>, wasDead |-> FALSE, configured |-> FALSE]

\* ------------------------------------------------------- mutation handlers
\* Each handler of the client that writes an entity: the entity it writes,
\* its awaited steps in source order ("xp?" is an awardXp that runs on one
\* of its branches only), the entity it passes to invalidateEntity, and
\* whether a failed write ends it.
Handlers ==
    { [name |-> "tasks.handleSave", entity |-> "tasks",
       steps |-> << "write", "invalidate" >>, invalidates |-> "tasks", stopOnError |-> FALSE],
      [name |-> "tasks.toggleComplete", entity |-> "tasks",
       steps |-> << "write", "xp?", "invalidate" >>, invalidates |-> "tasks", stopOnError |-> FALSE],
      [name |-> "tasks.handleDelete", entity |-> "tasks",
       steps |-> << "write", "invalidate" >>, invalidates |-> "tasks", stopOnError |-> FALSE],
      [name |-> "GoalCard.handleUpdate", entity |-> "goals",
       steps |-> << "write", "invalidate" >>, invalidates |-> "goals", stopOnError |-> TRUE],
      [name |-> "GoalCard.handleDelete", entity |-> "goals",
       steps |-> << "write", "invalidate" >>, invalidates |-> "goals", stopOnError |-> TRUE],
      [name |-> "goals.handleSave", entity |-> "goals",
       steps |-> << "write", "invalidate" >>, invalidates |-> "goals", stopOnError |-> FALSE],
      [name |-> "goals.deleteCompleted", entity |-> "goals",
       steps |-> << "write", "invalidate" >>, invalidates |-> "goals", stopOnError |-> FALSE],
      [name |-> "habits.checkIn", entity |-> "habits",
       steps |-> << "write", "xp", "invalidate" >>, invalidates |-> "habits", stopOnError |-> FALSE],
      [name |-> "habits.handleDelete", entity |-> "habits",
       steps |-> << "write", "invalidate" >>, invalidates |-> "habits", stopOnError |-> FALSE],
      [name |-> "habits.handleSave", entity |-> "habits",
       steps |-> << "write", "invalidate" >>, invalidates |-> "habits", stopOnError |-> TRUE],
      [name |-> "journal.handleSave", entity |-> "journal",
       steps |-> << "write", "xp?", "invalidate" >>, invalidates |-> "journal", stopOnError |-> TRUE],
      [name |-> "pomodoro.handleSessionComplete", entity |-> "pomodoro",
       steps |-> << "write", "xp", "invalidate" >>, invalidates |-> "pomodoro", stopOnError |-> FALSE],
      [name |-> "dashboard.quickComplete", entity |-> "tasks",
       steps |-> << "write", "xp" >>, invalidates |-> "none", stopOnError |-> FALSE],
      [name |-> "review.handleComplete", entity |-> "journal",
       steps |-> << "write", "xp", "invalidate" >>, invalidates |-> "tasks", stopOnError |-> FALSE],
      [name |-> "onboarding.handleFinish", entity |-> "habits",
       steps |-> << "write", "profile", "xp" >>, invalidates |-> "none", stopOnError |-> FALSE] }

\* The order in which a handler runs its awaited steps.
StepsOf_InvalidateFirst(hd) ==
    IF hd.invalidates = "none" THEN hd.steps
    ELSE << "invalidate" >> \o SelectSeq(hd.steps, LAMBDA s : s # "invalidate")

StepsOf(hd) == hd.steps

NoHandler == [name |-> "none", entity |-> "none", invalidates |-> "none", stopOnError |-> FALSE,
              steps |-> <<>>, cur |-> "none", done |-> FALSE, wrote |-> "none",
              writeSettled |-> FALSE, invCalled |-> FALSE, invAfterWrite |-> FALSE,
              invReturned |-> FALSE, invEntity |-> "none"]

\* ================================================================ state
VARIABLES
    cipherPc,      \* field cipher exercise: "idle" | "encrypted" | "decrypted"
    cipherIn,      \* the plaintext given to encrypt
    cipherKey,     \* the key given to encrypt
    cipherBlob,    \* what encrypt returned
    cipherDecKey,  \* the key given to decrypt
    cipherOut,     \* what decrypt returned, [ok, val]
    \* ---- session key store (crypto.ts:87) and localStorage
    sessionKey,        \* the module-level key, NoKey for null
    lsKey,             \* localStorage['__ft_sk'], Absent when not set
    lsSalt,            \* localStorage['__ft_ss'], Absent when not set
    storageAvailable,  \* FALSE: every localStorage access throws
    setPc,             \* setSessionKey call: "idle" | "export"
    setArgs,           \* its arguments [key, salt]
    rsPc,              \* restoreSessionKey call: "idle" | "import"
    rsRaw,             \* the bytes handed to importKey
    rsCaller,          \* who awaits it: "direct" | "encryptField" | "decryptField" | "layout"
    fc,                \* the field codec call: [op, in, out, done, raised, restores, key]
    \* ---- observers of the session key store
    restoreRet,        \* what the last restoreSessionKey returned: "none" | "true" | "false"
    lastSet,           \* [key, stored, overwrote] of the last completed setSessionKey
    reloaded,          \* a reload happened after lastSet and nothing else since
    loggedOut,         \* "no", or since a clearSessionKey that ran with no call in flight and
                       \* no setSessionKey after it: "cleared" (it dropped a key) | "empty"
    \* ---- application start: AppLayout, the store, the entity loaders
    mounted,           \* AppLayout is mounted
    layoutPc,          \* its profile effect: "unmounted" | "getUser" | "profile" | "restore" | "done"
    cancelled,         \* the effect's cancelled flag
    authLoading,       \* AppLayout's authLoading state; its children render when FALSE
    storeUser,         \* the store holds a user (store.user is not null)
    dataLoaded,        \* store.dataLoaded, per entity
    queryPc,           \* the loader query per entity: "idle" | "fetching" | "decrypting"
    xpPc,              \* awardXp: "idle" | "updating"
    layoutRestored,    \* since the page loaded, a restoreSessionKey awaited by the layout returned
    \* ---- server side: the cache store, the persisted rows, calls in flight
    now,               \* Date.now(), in ms
    stores,            \* "mem": the in-process Map, "remote": the shared Redis; key -> entry
    redisUrl,          \* process.env.REDIS_URL is set
    dead,              \* the proxy's dead flag
    db,                \* the persisted rows, per entity and user
    cq,                \* the cachedQuery call of each caller
    inv,               \* the invalidateEntity call
    firstMiss,         \* the last cachedQuery that missed on an absent key and stored its
                       \* result, valid while nothing but time short of the TTL has passed
    \* ---- client side: the mutation handler that is running
    h,                 \* [name, steps, cur, done, wrote, writeSettled, invCalled,
                       \*  invAfterWrite, invReturned, invEntity]
    \* ---- server side: one call of an exported fetcher
    ft,                \* position and observations of the fetchTasks call
    \* ---- server side: checkRateLimit called on one key
    rlc,               \* its arguments, the calls of the current window, its last answer
    \* ---- server side: one operation on the store proxy
    px,                \* the operation, whether the shared store failed it, its answer
    \* ---- calls that overlap in time
    xp,                \* awardXp: the store's XP, the persisted XP, the calls in flight
    mut,               \* a mutation handler: its row write, then its invalidateEntity
    conn,              \* the shared store's connection: its status and reconnect attempts
    iso,               \* fetches of several users: who filled each cache key, the last fetch
    auth               \* who is signed in on the device, and how far the sign-in has come

cipherVars == << cipherPc, cipherIn, cipherKey, cipherBlob, cipherDecKey, cipherOut >>

storeVars == << sessionKey, lsKey, lsSalt, storageAvailable >>

callVars == << setPc, setArgs, rsPc, rsRaw, rsCaller, fc >>

obsVars == << restoreRet, lastSet, reloaded, loggedOut >>

sessionVars == << storeVars, callVars, obsVars >>

startupVars == << mounted, layoutPc, cancelled, authLoading, storeUser, dataLoaded,
                  queryPc, xpPc, layoutRestored >>

cacheVars == << now, stores, redisUrl, dead, db, cq, inv, firstMiss >>

serverCallVars == << ft, rlc, px >>

overlapVars == << xp, mut, conn, iso, auth >>

baseVars == << cipherVars, sessionVars, startupVars, cacheVars, h, serverCallVars >>

vars == << baseVars, overlapVars >>

notSession == << cipherVars, startupVars, cacheVars, h, serverCallVars, overlapVars >>

notCipher == << sessionVars, startupVars, cacheVars, h, serverCallVars, overlapVars >>

notSessionStartup == << cipherVars, cacheVars, h, serverCallVars, overlapVars >>

notCache == << cipherVars, sessionVars, startupVars, h, serverCallVars, overlapVars >>

notHandler == << cipherVars, sessionVars, startupVars, cacheVars, serverCallVars, overlapVars >>

clientVars == << cipherVars, sessionVars, startupVars, h, overlapVars >>

besidesCache == << cipherVars, sessionVars, startupVars, h, serverCallVars >>

NoResult == [ok |-> FALSE, val |-> <<>>]

\* The overlapping-call models at rest.
XpCallers == {"toggleComplete", "checkIn"}

NoXpCall == [pc |-> "idle", amount |-> 0, newXp |-> 0]

NoXp == [initial |-> 0, store |-> 0, persisted |-> 0, awarded |-> 0, issued |-> 0,
         calls |-> [c \in XpCallers |-> NoXpCall]]

NoMutation == [pc |-> "idle", entity |-> "none", user |-> <<>>, before |-> <<>>,
               skipped |-> FALSE]

NoConnection == [status |-> "wait", times |-> 0, retriedWhenDead |-> FALSE]

NoIsoCall == [pc |-> "idle", entity |-> "none", key |-> <<>>, hit |-> FALSE, from |-> <<>>,
              result |-> <<>>]

NoIsolation == [owner |-> [k \in CacheKeys |-> <<>>], calls |-> [u \in UserIds |-> NoIsoCall]]

NoAuth == [user |-> "none", pc |-> "idle"]

\* The entities whose loaders the start-up model follows; useEntityLoader is
\* one generic function and the paginated loaders gate the same way.
LoaderEntities == {"tasks", "journal"}

\* ------------------------------------------------------- session key store
\* localStorage.getItem returns null for a missing entry.
Absent == << -1 >>

Falsy(str) == str = Absent \/ str = <<>>

\* crypto.subtle.importKey('raw', ...) accepts the AES key sizes only.
Importable(raw) == Len(raw) \in {16, 24, 32}

FieldValues == { <<>>, << CP_A >>, << CP_EURO, CP_A >>, << CP_A, CP_A, CP_A, CP_A >> }

Iv0 == Fill(IV_LENGTH, 3)

Salt0 == Fill(SALT_LENGTH, 1)

\* The profile salt of the user a key was derived for.
SaltOf(k) == IF k = RawKey(17) THEN Fill(SALT_LENGTH, 1) ELSE Fill(SALT_LENGTH, 2)

\* A stored blob with its last character replaced.
Tamper(blob) == [blob EXCEPT ![Len(blob)] = IF blob[Len(blob)] = CP_A THEN CP_A + 1 ELSE CP_A]

\* What a column read hands to decryptField: legacy plaintext, blobs written
\* under either key, and a blob altered in storage.
StoredValues ==
    FieldValues
    \cup { encrypt(<< CP_A >>, k, Iv0, Salt0) : k \in Keys }
    \cup { Tamper(encrypt(<< CP_A >>, RawKey(17), Iv0, Salt0)) }

\* What an earlier session may have left under '__ft_sk': nothing, a key, or
\* a damaged value (not base64, a value of no key size, a truncated key).
PersistedKeys ==
    { Absent, Btoa(RawKey(17)), << CP_EURO >>, Btoa(<< 1, 2, 3 >>), Btoa(Fill(16, 5)) }

NoCall == [op |-> "none", in |-> <<>>, out |-> <<>>, done |-> FALSE,
           raised |-> FALSE, restores |-> 0, key |-> NoKey]

NoSet == [key |-> NoKey, stored |-> FALSE, overwrote |-> FALSE]

SessionInit ==
    /\ cipherPc = "idle"
    /\ cipherIn = <<>>
    /\ cipherKey = NoKey
    /\ cipherBlob = <<>>
    /\ cipherDecKey = NoKey
    /\ cipherOut = NoResult
    /\ sessionKey = NoKey
    /\ lsKey \in PersistedKeys
    /\ lsSalt = IF lsKey = Absent THEN Absent ELSE Btoa(Salt0)
    /\ storageAvailable \in BOOLEAN
    /\ setPc = "idle"
    /\ setArgs = [key |-> NoKey, salt |-> <<>>]
    /\ rsPc = "idle"
    /\ rsRaw = <<>>
    /\ rsCaller = "none"
    /\ fc = NoCall
    /\ restoreRet = "none"
    /\ lastSet = NoSet
    /\ reloaded = FALSE
    /\ loggedOut = "no"
    /\ mounted = FALSE
    /\ layoutPc = "unmounted"
    /\ cancelled = FALSE
    /\ authLoading = TRUE
    /\ storeUser = FALSE
    /\ dataLoaded = [e \in LoaderEntities |-> FALSE]
    /\ queryPc = [e \in LoaderEntities |-> "idle"]
    /\ xpPc = "idle"
    /\ layoutRestored = FALSE
    /\ now = 0
    /\ stores = [s \in {"mem", "remote"} |-> EmptyStore]
    /\ redisUrl = FALSE
    /\ dead = FALSE
    /\ db = [e \in CacheEntities |-> [u \in UserIds |-> <<>>]]
    /\ cq = [c \in Callers |-> IdleCall]
    /\ inv = IdleInv
    /\ firstMiss = NoMiss
    /\ h = NoHandler
    /\ ft = NoFetch
    /\ rlc = NoRateCall
    /\ px = NoProxyCall
    /\ xp = NoXp
    /\ mut = NoMutation
    /\ conn = NoConnection
    /\ iso = NoIsolation
    /\ auth = NoAuth

\* setSessionKey, up to its await of exportKey (crypto.ts:90-94).
SetSessionKeyBegin ==
    /\ ~fc.done
    /\ setPc = "idle"
    /\ \E k \in Keys :
        /\ sessionKey' = k
        /\ setArgs' = [key |-> k, salt |-> SaltOf(k)]
    /\ setPc' = "export"
    /\ restoreRet' = "none"
    /\ lastSet' = NoSet
    /\ reloaded' = FALSE
    /\ loggedOut' = "no"
    /\ UNCHANGED << lsKey, lsSalt, storageAvailable, rsPc, rsRaw, rsCaller, fc >>
    /\ UNCHANGED notSession

\* The value setSessionKey stores under '__ft_sk' (crypto.ts:94-97).
PersistedKeyValue_Salt(args) == Btoa(args.salt)

PersistedKeyValue(args) == Btoa(args.key)

\* The two localStorage.setItem calls of setSessionKey (crypto.ts:97-98):
\* "none" when the first throws (or localStorage itself does), "key" when
\* the second throws (QuotaExceededError), "both" when neither does.
PersistWrites(avail) == IF avail THEN {"both", "key", "none"} ELSE {"none"}

\* setSessionKey after exportKey resolved (crypto.ts:95-101); what the
\* try block throws is swallowed.
SetSessionKeyFinish ==
    /\ ~fc.done
    /\ setPc = "export"
    /\ \E w \in PersistWrites(storageAvailable) :
        /\ lsKey' = IF w \in {"both", "key"} THEN PersistedKeyValue(setArgs) ELSE lsKey
        /\ lsSalt' = IF w = "both" THEN Btoa(setArgs.salt) ELSE lsSalt
        /\ lastSet' = [key |-> setArgs.key,
                       stored |-> w \in {"both", "key"},
                       overwrote |-> w \in {"both", "key"} /\ lsKey # Absent
                                     /\ lsKey # Btoa(setArgs.key)]
    /\ setPc' = "idle"
    /\ UNCHANGED << sessionKey, storageAvailable, setArgs, rsPc, rsRaw, rsCaller, fc,
                    restoreRet, reloaded, loggedOut >>
    /\ UNCHANGED notSession

\* restoreSessionKey up to its first await (crypto.ts:105-112):
\* "true" / "false" when it returns without importing, "import" when it
\* suspends at importKey.
RestoreStart_NoResidentCheck ==
    IF ~storageAvailable THEN "false"
    ELSE IF Falsy(lsKey) THEN "false"
    ELSE IF ~Atob(lsKey).ok THEN "false"
    ELSE "import"

RestoreStart ==
    IF sessionKey # NoKey THEN "true"
    ELSE IF ~storageAvailable THEN "false"
    ELSE IF Falsy(lsKey) THEN "false"
    ELSE IF ~Atob(lsKey).ok THEN "false"
    ELSE "import"

\* restoreSessionKey after importKey settled (crypto.ts:112-122).
RestoreEnd_Optimistic == "true"

RestoreEnd == IF Importable(rsRaw) THEN "true" ELSE "false"

\* The key resident once the restore call that is finishing has returned.
KeyAfterRestoreEnd == IF Importable(rsRaw) THEN rsRaw ELSE sessionKey

\* A direct restoreSessionKey() call.
RestoreSessionKeyBegin ==
    /\ rsPc = "idle"
    /\ ~fc.done
    /\ IF RestoreStart = "import"
       THEN /\ rsPc' = "import"
            /\ rsRaw' = Atob(lsKey).bytes
            /\ rsCaller' = "direct"
            /\ UNCHANGED restoreRet
       ELSE /\ restoreRet' = RestoreStart
            /\ UNCHANGED << rsPc, rsRaw, rsCaller >>
    /\ UNCHANGED << storeVars, setPc, setArgs, fc, lastSet, reloaded, loggedOut >>
    /\ UNCHANGED notSession

RestoreSessionKeyFinish ==
    /\ ~fc.done
    /\ rsPc = "import"
    /\ rsCaller = "direct"
    /\ sessionKey' = KeyAfterRestoreEnd
    /\ restoreRet' = RestoreEnd
    /\ rsPc' = "idle"
    /\ rsRaw' = <<>>
    /\ rsCaller' = "none"
    /\ UNCHANGED << lsKey, lsSalt, storageAvailable, setPc, setArgs, fc, lastSet,
                    reloaded, loggedOut >>
    /\ UNCHANGED notSession

\* What the two localStorage.removeItem calls of clearSessionKey leave
\* (crypto.ts:131-136): [key, salt].
ClearedStorage_KeepsKey(avail, k, s) == [key |-> k, salt |-> Absent]

ClearedStorage(avail, k, s) ==
    IF avail THEN [key |-> Absent, salt |-> Absent] ELSE [key |-> k, salt |-> s]

clearSessionKey ==
    /\ ~fc.done
    /\ sessionKey' = NoKey
    /\ lsKey' = ClearedStorage(storageAvailable, lsKey, lsSalt).key
    /\ lsSalt' = ClearedStorage(storageAvailable, lsKey, lsSalt).salt
    /\ restoreRet' = "none"
    /\ lastSet' = NoSet
    /\ reloaded' = FALSE
    /\ loggedOut' = IF setPc # "idle" \/ rsPc # "idle" THEN "no"
                     ELSE IF sessionKey # NoKey \/ (storageAvailable /\ lsKey # Absent)
                     THEN "cleared" ELSE "empty"
    /\ UNCHANGED << storageAvailable, callVars >>

\* A clearSessionKey() call on its own.
ClearSessionKey == clearSessionKey /\ UNCHANGED notSession

hasSessionKey == sessionKey # NoKey

\* What a page load does to crypto.ts: the module state and every call in
\* flight are gone, localStorage stays.
DropPageState ==
    /\ ~fc.done
    /\ sessionKey' = NoKey
    /\ setPc' = "idle"
    /\ setArgs' = [key |-> NoKey, salt |-> <<>>]
    /\ rsPc' = "idle"
    /\ rsRaw' = <<>>
    /\ rsCaller' = "none"
    /\ fc' = NoCall
    /\ restoreRet' = "none"
    /\ reloaded' = (lastSet.key # NoKey /\ setPc = "idle")
    /\ UNCHANGED << lsKey, lsSalt, storageAvailable, lastSet, loggedOut >>

\* A page reload with nothing but crypto.ts in the picture.
Reload == DropPageState /\ UNCHANGED notSession

\* encryptField after its recovery attempt (crypto.ts:150-151); key is the
\* session key at that point.
encryptFieldResult_Passthrough(value, key, iv, salt) == value

encryptFieldResult(value, key, iv, salt) ==
    IF key = NoKey THEN value ELSE encrypt(value, key, iv, salt)

\* decryptField after its recovery attempt (crypto.ts:158-167): [out, raised].
decryptFieldResult_NoCatch(value, restored, key) ==
    IF ~restored THEN [out |-> value, raised |-> FALSE]
    ELSE IF key = NoKey \/ ~decrypt(value, key).ok THEN [out |-> <<>>, raised |-> TRUE]
    ELSE [out |-> decrypt(value, key).val, raised |-> FALSE]

decryptFieldResult(value, restored, key) ==
    IF ~restored THEN [out |-> value, raised |-> FALSE]
    ELSE IF key = NoKey \/ ~decrypt(value, key).ok THEN [out |-> value, raised |-> FALSE]
    ELSE [out |-> decrypt(value, key).val, raised |-> FALSE]

\* How often encryptField / decryptField call restoreSessionKey when they
\* find no key resident (crypto.ts:146-149, 155-157).
RecoveryAttempts(key) == IF key = NoKey THEN 1 ELSE 0

\* encryptField(value) up to its return or to the importKey its recovery
\* attempt suspends at.  The await of restoreSessionKey resumes in the same
\* microtask checkpoint that settles it, so no other handler runs between
\* the return of restoreSessionKey and the test of sessionKey.
EncryptFieldCall ==
    /\ fc.op = "none"
    /\ sessionKey = NoKey => rsPc = "idle"
    /\ \E value \in FieldValues, iv \in Ivs, salt \in {Salt0} :
        LET n == RecoveryAttempts(sessionKey)
            start == IF n = 0 THEN (IF sessionKey # NoKey THEN "true" ELSE "false")
                     ELSE RestoreStart
        IN IF start = "import"
           THEN /\ rsPc' = "import"
                /\ rsRaw' = Atob(lsKey).bytes
                /\ rsCaller' = "encryptField"
                /\ fc' = [op |-> "encryptField", in |-> value, out |-> <<>>, done |-> FALSE,
                          raised |-> FALSE, restores |-> n, key |-> NoKey]
                /\ UNCHANGED restoreRet
           ELSE /\ fc' = [op |-> "encryptField", in |-> value,
                          out |-> encryptFieldResult(value, sessionKey, iv, salt),
                          done |-> TRUE, raised |-> FALSE, restores |-> n,
                          key |-> sessionKey]
                /\ restoreRet' = IF n = 0 THEN restoreRet ELSE start
                /\ UNCHANGED << rsPc, rsRaw, rsCaller >>
    /\ UNCHANGED << storeVars, setPc, setArgs, lastSet, reloaded, loggedOut >>
    /\ UNCHANGED notSession

\* decryptField(value), likewise.
decryptFieldIssue(value) ==
    /\ fc.op = "none"
    /\ sessionKey = NoKey => rsPc = "idle"
    /\  LET n == RecoveryAttempts(sessionKey)
            start == IF n = 0 THEN (IF sessionKey # NoKey THEN "true" ELSE "false")
                     ELSE RestoreStart
            r == decryptFieldResult(value, start = "true", sessionKey)
        IN IF start = "import"
           THEN /\ rsPc' = "import"
                /\ rsRaw' = Atob(lsKey).bytes
                /\ rsCaller' = "decryptField"
                /\ fc' = [op |-> "decryptField", in |-> value, out |-> <<>>, done |-> FALSE,
                          raised |-> FALSE, restores |-> n, key |-> NoKey]
                /\ UNCHANGED restoreRet
           ELSE /\ fc' = [op |-> "decryptField", in |-> value, out |-> r.out,
                          done |-> TRUE, raised |-> r.raised, restores |-> n,
                          key |-> sessionKey]
                /\ restoreRet' = IF n = 0 THEN restoreRet ELSE start
                /\ UNCHANGED << rsPc, rsRaw, rsCaller >>
    /\ UNCHANGED << storeVars, setPc, setArgs, lastSet, reloaded, loggedOut >>

\* A decryptField call on a stored value.
DecryptFieldCall ==
    /\ \E value \in StoredValues : decryptFieldIssue(value)
    /\ UNCHANGED notSession

\* The recovery attempt of a field codec call settles and the call returns.
FieldRestoreFinish ==
    /\ rsPc = "import"
    /\ rsCaller \in {"encryptField", "decryptField"}
    /\ sessionKey' = KeyAfterRestoreEnd
    /\ restoreRet' = RestoreEnd
    /\ \E iv \in Ivs, salt \in {Salt0} :
        LET e == encryptFieldResult(fc.in, KeyAfterRestoreEnd, iv, salt)
            d == decryptFieldResult(fc.in, RestoreEnd = "true", KeyAfterRestoreEnd)
        IN fc' = [fc EXCEPT !.out = IF fc.op = "encryptField" THEN e ELSE d.out,
                            !.raised = IF fc.op = "encryptField" THEN FALSE ELSE d.raised,
                            !.done = TRUE,
                            !.key = KeyAfterRestoreEnd]
    /\ rsPc' = "idle"
    /\ rsRaw' = <<>>
    /\ rsCaller' = "none"
    /\ UNCHANGED << lsKey, lsSalt, storageAvailable, setPc, setArgs, lastSet,
                    reloaded, loggedOut >>
    /\ UNCHANGED notSession

\* The caller of encryptField / decryptField takes the returned value.
FieldReturn ==
    /\ fc.done
    /\ fc' = NoCall
    /\ UNCHANGED << storeVars, setPc, setArgs, rsPc, rsRaw, rsCaller, obsVars >>
    /\ UNCHANGED notSession

SessionNext ==
    \/ SetSessionKeyBegin
    \/ SetSessionKeyFinish
    \/ RestoreSessionKeyBegin
    \/ RestoreSessionKeyFinish
    \/ ClearSessionKey
    \/ Reload
    \/ EncryptFieldCall
    \/ DecryptFieldCall
    \/ FieldRestoreFinish
    \/ FieldReturn

SpecSession == SessionInit /\ [][SessionNext]_vars

\* ======================================================= application start
\* What a loader query's fetch hands to the decrypt mappers: a legacy
\* plaintext column or a blob written under the user's key.
QueryRows == { << CP_A >>, encrypt(<< CP_A >>, RawKey(17), Iv0, Salt0) }

\* useEntityLoader's `enabled` (useUserData.ts:75) under the layout's early
\* return while authLoading (part_003:475).
QueryEnabled(e) == mounted /\ ~authLoading /\ storeUser /\ ~dataLoaded[e]

\* A decryptField call has been issued and has not yet been consumed.
DecryptIssued == \E e \in LoaderEntities : queryPc[e] = "decrypting"

\* The browser loads a page: an (app) route, which mounts AppLayout, or the
\* login page.  The store's user is not persisted (store.ts:186-192).
PageLoad ==
    /\ DropPageState
    /\ \E onApp \in BOOLEAN :
        /\ mounted' = onApp
        /\ layoutPc' = IF onApp THEN "getUser" ELSE "unmounted"
    /\ cancelled' = FALSE
    /\ authLoading' = TRUE
    /\ storeUser' = FALSE
    /\ dataLoaded' = [e \in LoaderEntities |-> FALSE]
    /\ queryPc' = [e \in LoaderEntities |-> "idle"]
    /\ xpPc' = "idle"
    /\ layoutRestored' = FALSE
    /\ UNCHANGED notSessionStartup

\* The login page derives the key and awaits setSessionKey before it
\* navigates (part_005:17-50).
LoginSetKey ==
    /\ ~mounted
    /\ SetSessionKeyBegin

\* Client-side navigation into an (app) route mounts AppLayout and runs its
\* profile effect (part_003:396-431).
LayoutMount ==
    /\ ~mounted
    /\ layoutPc \in {"unmounted", "done"}
    /\ setPc = "idle"
    /\ ~fc.done
    /\ mounted' = TRUE
    /\ layoutPc' = "getUser"
    /\ cancelled' = FALSE
    /\ authLoading' = TRUE
    /\ UNCHANGED << storeUser, dataLoaded, queryPc, xpPc, layoutRestored >>
    /\ UNCHANGED << sessionVars, notSessionStartup >>

\* Navigation away unmounts it; the effect's cleanup sets cancelled
\* (part_003:430).
LayoutUnmount ==
    /\ mounted
    /\ ~fc.done
    /\ mounted' = FALSE
    /\ cancelled' = TRUE
    /\ UNCHANGED << layoutPc, authLoading, storeUser, dataLoaded, queryPc, xpPc,
                    layoutRestored >>
    /\ UNCHANGED << sessionVars, notSessionStartup >>

\* supabase.auth.getUser() resolves (part_003:421-427).
LayoutGetUser ==
    /\ layoutPc = "getUser"
    /\ ~fc.done
    /\ \E authUser \in BOOLEAN :
        layoutPc' = IF cancelled \/ ~authUser THEN "done" ELSE "profile"
    /\ UNCHANGED << mounted, cancelled, authLoading, storeUser, dataLoaded, queryPc,
                    xpPc, layoutRestored >>
    /\ UNCHANGED << sessionVars, notSessionStartup >>

\* What loadProfile does with the fetched profile (part_003:411-417).
StepAfterProfile_NoRestore(profile) == IF profile THEN "setUser" ELSE "noProfile"

StepAfterProfile(profile) == IF profile THEN "restore" ELSE "noProfile"

\* The profile fetch of loadProfile resolves (part_003:404-417).  A
\* restoreSessionKey that returns without importing resumes loadProfile in
\* the same microtask checkpoint.
LayoutProfileFetched ==
    /\ layoutPc = "profile"
    /\ ~fc.done
    /\ \E profile \in BOOLEAN :
        LET step == IF cancelled THEN "cancelled" ELSE StepAfterProfile(profile)
        IN  IF step = "restore" /\ rsPc # "idle"
            THEN FALSE
            ELSE IF step = "restore" /\ RestoreStart = "import"
            THEN /\ rsPc' = "import"
                 /\ rsRaw' = Atob(lsKey).bytes
                 /\ rsCaller' = "layout"
                 /\ layoutPc' = "restore"
                 /\ UNCHANGED << restoreRet, authLoading, storeUser, layoutRestored >>
            ELSE /\ layoutPc' = "done"
                 /\ restoreRet' = IF step = "restore" THEN RestoreStart ELSE restoreRet
                 /\ layoutRestored' = (layoutRestored \/ step = "restore")
                 /\ storeUser' = (storeUser \/ step \in {"restore", "setUser"})
                 /\ authLoading' = (authLoading /\ step = "cancelled")
                 /\ UNCHANGED << rsPc, rsRaw, rsCaller >>
    /\ UNCHANGED << storeVars, setPc, setArgs, fc, lastSet, reloaded, loggedOut >>
    /\ UNCHANGED << mounted, cancelled, dataLoaded, queryPc, xpPc >>
    /\ UNCHANGED notSessionStartup

\* The importKey of the layout's restoreSessionKey settles and loadProfile
\* resumes: setUser(profile), setAuthLoading(false) (part_003:414-417).
LayoutRestoreFinish ==
    /\ layoutPc = "restore"
    /\ rsPc = "import"
    /\ rsCaller = "layout"
    /\ ~fc.done
    /\ sessionKey' = KeyAfterRestoreEnd
    /\ restoreRet' = RestoreEnd
    /\ rsPc' = "idle"
    /\ rsRaw' = <<>>
    /\ rsCaller' = "none"
    /\ layoutPc' = "done"
    /\ layoutRestored' = TRUE
    /\ storeUser' = TRUE
    /\ authLoading' = FALSE
    /\ UNCHANGED << lsKey, lsSalt, storageAvailable, setPc, setArgs, fc, lastSet,
                    reloaded, loggedOut >>
    /\ UNCHANGED << mounted, cancelled, dataLoaded, queryPc, xpPc >>
    /\ UNCHANGED notSessionStartup

\* A loader's query starts fetching (useUserData.ts:73-80).
QueryStart ==
    /\ ~fc.done
    /\ \E e \in LoaderEntities :
        /\ QueryEnabled(e)
        /\ queryPc[e] = "idle"
        /\ queryPc' = [queryPc EXCEPT ![e] = "fetching"]
    /\ UNCHANGED << mounted, layoutPc, cancelled, authLoading, storeUser, dataLoaded,
                    xpPc, layoutRestored >>
    /\ UNCHANGED << sessionVars, notSessionStartup >>

\* The fetch resolves with no row: decryptAll maps nothing, the sync effect
\* stores the list (useUserData.ts:76-88).
QueryFetchedEmpty ==
    /\ ~fc.done
    /\ \E e \in LoaderEntities :
        /\ queryPc[e] = "fetching"
        /\ queryPc' = [queryPc EXCEPT ![e] = "idle"]
        /\ dataLoaded' = [dataLoaded EXCEPT ![e] = dataLoaded[e] \/ mounted]
    /\ UNCHANGED << mounted, layoutPc, cancelled, authLoading, storeUser, xpPc,
                    layoutRestored >>
    /\ UNCHANGED << sessionVars, notSessionStartup >>

\* The fetch resolves with a row: decryptAll calls the mapper, which calls
\* decryptField (useUserData.ts:30-53, 76-79).
QueryFetchedRows ==
    /\ \E e \in LoaderEntities :
        /\ queryPc[e] = "fetching"
        /\ queryPc' = [queryPc EXCEPT ![e] = "decrypting"]
    /\ \E value \in QueryRows : decryptFieldIssue(value)
    /\ UNCHANGED << mounted, layoutPc, cancelled, authLoading, storeUser, dataLoaded,
                    xpPc, layoutRestored >>
    /\ UNCHANGED notSessionStartup

\* decryptField returned; the sync effect stores the decrypted rows and marks
\* the entity loaded (useUserData.ts:83-88).
QueryDecrypted ==
    /\ fc.done
    /\ fc' = NoCall
    /\ \E e \in LoaderEntities :
        /\ queryPc[e] = "decrypting"
        /\ queryPc' = [queryPc EXCEPT ![e] = "idle"]
        /\ dataLoaded' = [dataLoaded EXCEPT ![e] = dataLoaded[e] \/ mounted]
    /\ UNCHANGED << storeVars, setPc, setArgs, rsPc, rsRaw, rsCaller, obsVars >>
    /\ UNCHANGED << mounted, layoutPc, cancelled, authLoading, storeUser, xpPc,
                    layoutRestored >>
    /\ UNCHANGED notSessionStartup

\* handleLogout after signOut resolved: clearSessionKey(), clearData(),
\* setUser(null) (part_003:461-469, part_001:34-43).
HandleLogout ==
    /\ mounted
    /\ ~authLoading
    /\ clearSessionKey
    /\ dataLoaded' = [e \in LoaderEntities |-> FALSE]
    /\ storeUser' = FALSE
    /\ UNCHANGED << mounted, layoutPc, cancelled, authLoading, queryPc, xpPc,
                    layoutRestored >>
    /\ UNCHANGED notSessionStartup

\* awardXp reads the store's user and awaits the profile update (xp.ts:13-18).
AwardXpBegin ==
    /\ mounted
    /\ ~authLoading
    /\ storeUser
    /\ xpPc = "idle"
    /\ ~fc.done
    /\ xpPc' = "updating"
    /\ UNCHANGED << mounted, layoutPc, cancelled, authLoading, storeUser, dataLoaded,
                    queryPc, layoutRestored >>
    /\ UNCHANGED << sessionVars, notSessionStartup >>

\* awardXp resumes and writes the user it read back to the store (xp.ts:19).
AwardXpFinish ==
    /\ xpPc = "updating"
    /\ ~fc.done
    /\ xpPc' = "idle"
    /\ storeUser' = TRUE
    /\ UNCHANGED << mounted, layoutPc, cancelled, authLoading, dataLoaded, queryPc,
                    layoutRestored >>
    /\ UNCHANGED << sessionVars, notSessionStartup >>

\* A loader's decryptField finds a key resident or nothing importable in
\* localStorage (the layout's restore ran before it, logout removes the
\* entry), so its recovery attempt never suspends here.
StartupNext ==
    \/ PageLoad
    \/ LoginSetKey
    \/ SetSessionKeyFinish
    \/ LayoutMount
    \/ LayoutUnmount
    \/ LayoutGetUser
    \/ LayoutProfileFetched
    \/ LayoutRestoreFinish
    \/ QueryStart
    \/ QueryFetchedEmpty
    \/ QueryFetchedRows
    \/ QueryDecrypted
    \/ HandleLogout
    \/ AwardXpBegin
    \/ AwardXpFinish

\* The state right after a page load, with what an earlier session left in
\* localStorage.
StartupInit ==
    /\ cipherPc = "idle"
    /\ cipherIn = <<>>
    /\ cipherKey = NoKey
    /\ cipherBlob = <<>>
    /\ cipherDecKey = NoKey
    /\ cipherOut = NoResult
    /\ sessionKey = NoKey
    /\ lsKey \in { Absent, Btoa(RawKey(17)), << CP_EURO >> }
    /\ lsSalt = IF lsKey = Absent THEN Absent ELSE Btoa(Salt0)
    /\ storageAvailable \in BOOLEAN
    /\ setPc = "idle"
    /\ setArgs = [key |-> NoKey, salt |-> <<>>]
    /\ rsPc = "idle"
    /\ rsRaw = <<>>
    /\ rsCaller = "none"
    /\ fc = NoCall
    /\ restoreRet = "none"
    /\ lastSet = NoSet
    /\ reloaded = FALSE
    /\ loggedOut = "no"
    /\ mounted \in BOOLEAN
    /\ layoutPc = IF mounted THEN "getUser" ELSE "unmounted"
    /\ cancelled = FALSE
    /\ authLoading = TRUE
    /\ storeUser = FALSE
    /\ dataLoaded = [e \in LoaderEntities |-> FALSE]
    /\ queryPc = [e \in LoaderEntities |-> "idle"]
    /\ xpPc = "idle"
    /\ layoutRestored = FALSE
    /\ now = 0
    /\ stores = [s \in {"mem", "remote"} |-> EmptyStore]
    /\ redisUrl = FALSE
    /\ dead = FALSE
    /\ db = [e \in CacheEntities |-> [u \in UserIds |-> <<>>]]
    /\ cq = [c \in Callers |-> IdleCall]
    /\ inv = IdleInv
    /\ firstMiss = NoMiss
    /\ h = NoHandler
    /\ ft = NoFetch
    /\ rlc = NoRateCall
    /\ px = NoProxyCall
    /\ xp = NoXp
    /\ mut = NoMutation
    /\ conn = NoConnection
    /\ iso = NoIsolation
    /\ auth = NoAuth

SpecStartup == StartupInit /\ [][StartupNext]_vars

\* ============================================== cache-through and invalidation
\* ---- the store proxy of makeRedisClient
\* Which store serves an operation: the in-process one when REDIS_URL is
\* unset, when the client is dead, or when the shared store fails this call.
TargetOf(isDead, fail) == IF ~redisUrl \/ isDead \/ fail THEN "mem" ELSE "remote"

\* firstMiss once more is known of what happened since: still valid, or
\* forgotten.
Keep(miss, stillValid) == IF miss.valid /\ stillValid THEN miss ELSE NoMiss

\* The stores after an operation answered by store tg left it as s.  Once
\* the proxy is dead the shared store is never read again; its content is
\* dropped from the state.
StoresAfter(st, tg, s, nowDead) ==
    [x \in {"mem", "remote"} |->
        IF x = tg THEN s ELSE IF x = "remote" /\ nowDead THEN EmptyStore ELSE st[x]]

\* Whether the shared store can fail the operation at hand.
FailChoices == IF redisUrl /\ ~dead THEN BOOLEAN ELSE {FALSE}

\* The store a redis.get would be answered from if the shared store answers.
Serving == stores[TargetOf(dead, FALSE)]

\* redis.get(key) now would return a value.
Cached(key) == Serving[key].present /\ ~isExpired(Serving[key], now)

\* The value of the auth rate-limit counter.
AuthCount == IF Cached(AuthRateKey) THEN StrToNum(Serving[AuthRateKey].value) ELSE 0

\* checkRateLimit({key, limit, windowSec}): incr, expire on the first count.
checkRateLimit(key, limit, windowSec, failIncr, failExpire) ==
    LET t1 == TargetOf(dead, failIncr)
        r1 == memIncr(stores[t1], key, now)
        d1 == dead \/ failIncr
        s1 == StoresAfter(stores, t1, r1.store, d1)
        t2 == TargetOf(d1, failExpire)
        r2 == memExpire(s1[t2], key, windowSec, now)
        d2 == d1 \/ (redisUrl /\ failExpire)
    IN  [stores |-> IF r1.ret = 1 THEN StoresAfter(s1, t2, r2.store, d2) ELSE s1,
         dead |-> IF r1.ret = 1 THEN d2 ELSE d1,
         allowed |-> r1.ret <= limit,
         remaining |-> IF limit - r1.ret > 0 THEN limit - r1.ret ELSE 0]

\* cachedQuery up to the answer of redis.get: a hit returns JSON.parse of
\* the cached string, anything else goes on to queryFn.
CachedQueryBegin ==
    \E c \in Callers, q \in CalledShapes, fail \in FailChoices :
        LET tg == TargetOf(dead, fail)
            r == memGet(stores[tg], q.key, now)
            hit == Truthy(r.ret) /\ Parse(r.ret.str).ok
        IN  /\ cq[c].pc = "idle"
            /\ \A o \in Callers : cq[o].pc # "done"
            /\ inv.pc # "done"
            /\ stores' = StoresAfter(stores, tg, r.store, dead \/ fail)
            /\ dead' = (dead \/ fail)
            /\ cq' = [cq EXCEPT ![c] =
                        [pc |-> IF hit THEN "done" ELSE "query",
                         entity |-> q.entity, user |-> q.user, key |-> q.key,
                         result |-> IF hit THEN Parse(r.ret.str).val ELSE <<>>,
                         invoked |-> 0,
                         fresh |-> ~Cached(q.key),
                         expectHit |-> firstMiss.valid /\ firstMiss.key = q.key /\ ~fail,
                         expected |-> firstMiss.result,
                         rows |-> <<>>]]
            /\ firstMiss' = Keep(firstMiss, ~fail)
            /\ inv' = inv
            /\ UNCHANGED << now, redisUrl, db >>
            /\ UNCHANGED notCache

\* queryFn: `const { data } = await supabase...; return data || []`.
QueryFnResult(rows, failed) == IF failed THEN <<>> ELSE rows

CachedQueryRun ==
    \E c \in Callers, failed \in BOOLEAN :
        /\ cq[c].pc = "query"
        /\ \A o \in Callers : cq[o].pc # "done"
        /\ inv.pc # "done"
        /\ cq' = [cq EXCEPT ![c].pc = "set",
                            ![c].result = QueryFnResult(db[cq[c].entity][cq[c].user], failed),
                            ![c].rows = QueryFnResult(db[cq[c].entity][cq[c].user], failed),
                            ![c].invoked = cq[c].invoked + 1]
        /\ UNCHANGED << now, stores, redisUrl, dead, db, inv, firstMiss >>
        /\ UNCHANGED notCache

\* redis.set(cacheKey, JSON.stringify(result), "EX", TTL[entity]), then
\* `return result`.
CachedQuerySet ==
    \E c \in Callers, fail \in FailChoices :
        LET tg == TargetOf(dead, fail)
            r == memSet(stores[tg], cq[c].key, Stringify(cq[c].result), TTL(cq[c].entity), now)
        IN  /\ cq[c].pc = "set"
            /\ \A o \in Callers : cq[o].pc # "done"
            /\ inv.pc # "done"
            /\ stores' = StoresAfter(stores, tg, r.store, dead \/ fail)
            /\ dead' = (dead \/ fail)
            /\ cq' = [cq EXCEPT ![c].pc = "done"]
            /\ firstMiss' =
                IF cq[c].fresh /\ ~Cached(cq[c].key)
                THEN [key |-> cq[c].key, result |-> cq[c].result, valid |-> TRUE,
                      until |-> now + TTL(cq[c].entity) * MS_PER_SEC]
                ELSE IF firstMiss.key = cq[c].key \/ fail
                THEN NoMiss
                ELSE firstMiss
            /\ inv' = IF inv.pc # "idle" /\ cq[c].entity = inv.entity /\ cq[c].user = inv.user
                      THEN [inv EXCEPT !.quiet = FALSE] ELSE inv
            /\ UNCHANGED << now, redisUrl, db >>
            /\ UNCHANGED notCache

\* The caller of cachedQuery takes the result.
CachedQueryReturn ==
    \E c \in Callers :
        /\ cq[c].pc = "done"
        /\ cq' = [cq EXCEPT ![c] = IdleCall]
        /\ UNCHANGED << now, stores, redisUrl, dead, db, inv, firstMiss >>
        /\ UNCHANGED notCache

\* A write to the persisted rows of an entity of a user.
DbWrite ==
    \E e \in CacheEntities, u \in UserIds, rows \in RowLists :
        /\ \E q \in CalledShapes : q.entity = e /\ q.user = u
        /\ \A o \in Callers : cq[o].pc # "done"
        /\ inv.pc # "done"
        /\ db[e][u] # rows
        /\ db' = [db EXCEPT ![e][u] = rows]
        /\ UNCHANGED << now, stores, redisUrl, dead, cq, inv, firstMiss >>
        /\ UNCHANGED notCache

\* What invalidateEntity does once getUserId answered.
StepAfterAuth(allowed) == IF allowed THEN "keys" ELSE "return"

\* invalidateEntity(entity) called for a signed-in user: getUserId runs the
\* auth rate-limit check and resolves the user, or returns null.
InvalidateBeginFor(shapes) ==
    \E q \in shapes, f1 \in FailChoices, f2 \in FailChoices :
        LET rl == checkRateLimit(AuthRateKey, AUTH_LIMIT, AUTH_WINDOW_SEC, f1, f2)
        IN  /\ inv.pc = "idle"
            /\ \A o \in Callers : cq[o].pc # "done"
            /\ AuthCount < MaxFreshCalls \/ AuthCount >= AUTH_LIMIT - 1
            /\ AuthCount <= AUTH_LIMIT + MaxOverLimit
            /\ stores' = rl.stores
            /\ dead' = rl.dead
            /\ inv' = [pc |-> IF StepAfterAuth(rl.allowed) = "keys" THEN "keys" ELSE "done",
                       entity |-> q.entity, user |-> q.user, keys |-> {}, quiet |-> TRUE,
                       skipped |-> ~rl.allowed]
            /\ firstMiss' = Keep(firstMiss, (rl.dead = dead))
            /\ UNCHANGED << now, redisUrl, db, cq >>
            /\ UNCHANGED notCache

InvalidateBegin == InvalidateBeginFor(CalledShapes)

\* redis.keys(`${entity}:${userId}*`)
InvalidateKeys ==
    \E fail \in FailChoices :
        LET tg == TargetOf(dead, fail)
            r == memKeys(stores[tg], InvalidationPattern(inv.entity, inv.user), now)
        IN  /\ inv.pc = "keys"
            /\ \A o \in Callers : cq[o].pc # "done"
            /\ stores' = StoresAfter(stores, tg, r.store, dead \/ fail)
            /\ dead' = (dead \/ fail)
            /\ inv' = [inv EXCEPT !.pc = IF r.ret = {} THEN "done" ELSE "del", !.keys = r.ret]
            /\ firstMiss' = Keep(firstMiss, ~fail)
            /\ UNCHANGED << now, redisUrl, db, cq >>
            /\ UNCHANGED notCache

\* redis.del(...keys)
InvalidateDel ==
    \E fail \in FailChoices :
        LET tg == TargetOf(dead, fail)
            r == memDel(stores[tg], inv.keys)
        IN  /\ inv.pc = "del"
            /\ \A o \in Callers : cq[o].pc # "done"
            /\ stores' = StoresAfter(stores, tg, r.store, dead \/ fail)
            /\ dead' = (dead \/ fail)
            /\ inv' = [inv EXCEPT !.pc = "done"]
            /\ firstMiss' = Keep(firstMiss, ~fail /\ firstMiss.key \notin inv.keys)
            /\ UNCHANGED << now, redisUrl, db, cq >>
            /\ UNCHANGED notCache

\* invalidateEntity has returned to its caller.
InvalidateReturn ==
    /\ inv.pc = "done"
    /\ inv' = IdleInv
    /\ UNCHANGED << now, stores, redisUrl, dead, db, cq, firstMiss >>
    /\ UNCHANGED notCache

\* Other server actions of the same client address run getUserId until the
\* auth counter of the current window stands one below the limit.
RequestBurst ==
    LET s == cleanup(Serving, AuthRateKey, now)
        entry == [present |-> TRUE, value |-> NumToStr(AUTH_LIMIT - 1),
                  expiresAt |-> IF s[AuthRateKey].present THEN s[AuthRateKey].expiresAt
                                ELSE now + AUTH_WINDOW_SEC * MS_PER_SEC]
    IN  /\ AuthCount < AUTH_LIMIT - 1
        /\ inv.pc # "done"
        /\ \A o \in Callers : cq[o].pc # "done"
        /\ stores' = [stores EXCEPT ![TargetOf(dead, FALSE)] = [s EXCEPT ![AuthRateKey] = entry]]
        /\ UNCHANGED << now, redisUrl, dead, db, cq, inv, firstMiss >>
        /\ UNCHANGED notCache

\* The connection to the shared store reports an error (redis.ts:100-106).
RedisConnectionError ==
    /\ redisUrl
    /\ ~dead
    /\ inv.pc # "done"
    /\ \A o \in Callers : cq[o].pc # "done"
    /\ dead' = TRUE
    /\ stores' = StoresAfter(stores, "mem", stores["mem"], TRUE)
    /\ firstMiss' = NoMiss
    /\ UNCHANGED << now, redisUrl, db, cq, inv >>
    /\ UNCHANGED notCache

\* Time passes.
Tick ==
    \E d \in { (TTL_TASKS * MS_PER_SEC) \div 2 } :
        /\ now + d <= MaxClock
        /\ inv.pc # "done"
        /\ \A o \in Callers : cq[o].pc # "done"
        /\ now' = now + d
        /\ firstMiss' = Keep(firstMiss, now + d < firstMiss.until)
        /\ UNCHANGED << stores, redisUrl, dead, db, cq, inv >>
        /\ UNCHANGED notCache

CacheNext ==
    \/ CachedQueryBegin
    \/ CachedQueryRun
    \/ CachedQuerySet
    \/ CachedQueryReturn
    \/ DbWrite
    \/ InvalidateBegin
    \/ InvalidateKeys
    \/ InvalidateDel
    \/ InvalidateReturn
    \/ RequestBurst
    \/ RedisConnectionError
    \/ Tick

CacheInit ==
    /\ cipherPc = "idle"
    /\ cipherIn = <<>>
    /\ cipherKey = NoKey
    /\ cipherBlob = <<>>
    /\ cipherDecKey = NoKey
    /\ cipherOut = NoResult
    /\ sessionKey = NoKey
    /\ lsKey = Absent
    /\ lsSalt = Absent
    /\ storageAvailable = TRUE
    /\ setPc = "idle"
    /\ setArgs = [key |-> NoKey, salt |-> <<>>]
    /\ rsPc = "idle"
    /\ rsRaw = <<>>
    /\ rsCaller = "none"
    /\ fc = NoCall
    /\ restoreRet = "none"
    /\ lastSet = NoSet
    /\ reloaded = FALSE
    /\ loggedOut = "no"
    /\ mounted = FALSE
    /\ layoutPc = "unmounted"
    /\ cancelled = FALSE
    /\ authLoading = TRUE
    /\ storeUser = FALSE
    /\ dataLoaded = [e \in LoaderEntities |-> FALSE]
    /\ queryPc = [e \in LoaderEntities |-> "idle"]
    /\ xpPc = "idle"
    /\ layoutRestored = FALSE
    /\ now = 0
    /\ stores = [s \in {"mem", "remote"} |-> EmptyStore]
    /\ redisUrl \in BOOLEAN
    /\ dead = FALSE
    /\ db = [e \in CacheEntities |-> [u \in UserIds |-> <<>>]]
    /\ cq = [c \in Callers |-> IdleCall]
    /\ inv = IdleInv
    /\ firstMiss = NoMiss
    /\ h = NoHandler
    /\ ft = NoFetch
    /\ rlc = NoRateCall
    /\ px = NoProxyCall
    /\ xp = NoXp
    /\ mut = NoMutation
    /\ conn = NoConnection
    /\ iso = NoIsolation
    /\ auth = NoAuth

SpecCache == CacheInit /\ [][CacheNext]_vars

\* ==================================================== invalidation frame
\* invalidateEntity called by either user for either entity, on a store
\* that holds any of the entries the core fetchers write.
InvalidateAnyBegin == InvalidateBeginFor(QueryShapes)

\* What cachedQuery may have left under a key at time 0.
EntriesOf(q) ==
    { Missing } \cup
    { [present |-> TRUE, value |-> Stringify(rows),
       expiresAt |-> TTL(q.entity) * MS_PER_SEC] : rows \in RowLists }

FilledStores ==
    { [k \in AllKeys |-> IF k \in CacheKeys THEN c[k] ELSE Missing] :
        c \in { f \in [CacheKeys -> UNION { EntriesOf(q) : q \in QueryShapes }] :
                    \A q \in QueryShapes : f[q.key] \in EntriesOf(q) } }

InvalidateNext ==
    \/ InvalidateAnyBegin
    \/ InvalidateKeys
    \/ InvalidateDel
    \/ InvalidateReturn
    \/ RequestBurst

InvalidateInit ==
    /\ cipherPc = "idle"
    /\ cipherIn = <<>>
    /\ cipherKey = NoKey
    /\ cipherBlob = <<>>
    /\ cipherDecKey = NoKey
    /\ cipherOut = NoResult
    /\ sessionKey = NoKey
    /\ lsKey = Absent
    /\ lsSalt = Absent
    /\ storageAvailable = TRUE
    /\ setPc = "idle"
    /\ setArgs = [key |-> NoKey, salt |-> <<>>]
    /\ rsPc = "idle"
    /\ rsRaw = <<>>
    /\ rsCaller = "none"
    /\ fc = NoCall
    /\ restoreRet = "none"
    /\ lastSet = NoSet
    /\ reloaded = FALSE
    /\ loggedOut = "no"
    /\ mounted = FALSE
    /\ layoutPc = "unmounted"
    /\ cancelled = FALSE
    /\ authLoading = TRUE
    /\ storeUser = FALSE
    /\ dataLoaded = [e \in LoaderEntities |-> FALSE]
    /\ queryPc = [e \in LoaderEntities |-> "idle"]
    /\ xpPc = "idle"
    /\ layoutRestored = FALSE
    /\ now = 0
    /\ stores \in { [s \in {"mem", "remote"} |-> IF s = "mem" THEN f ELSE EmptyStore] :
                       f \in FilledStores }
    /\ redisUrl = FALSE
    /\ dead = FALSE
    /\ db = [e \in CacheEntities |-> [u \in UserIds |-> <<>>]]
    /\ cq = [c \in Callers |-> IdleCall]
    /\ inv = IdleInv
    /\ firstMiss = NoMiss
    /\ h = NoHandler
    /\ ft = NoFetch
    /\ rlc = NoRateCall
    /\ px = NoProxyCall
    /\ xp = NoXp
    /\ mut = NoMutation
    /\ conn = NoConnection
    /\ iso = NoIsolation
    /\ auth = NoAuth

SpecInvalidate == InvalidateInit /\ [][InvalidateNext]_vars

\* ========================================================= exported fetcher
\* fetchTasks() = withAuth('tasks', [], (uid, sb) => _tasksCore(uid, sb, 50, 0)),
\* step by step.  `redis` is the RedisLike object that redis.ts exports
\* (globalForRedis.redis when one is installed): a call on it answers as
\* the in-process store does, or rejects.
FetchKey == TasksKey(U1, "50", "0")

FetchStore == stores["mem"]

CounterOf(key) ==
    IF FetchStore[key].present /\ ~isExpired(FetchStore[key], now)
    THEN StrToNum(FetchStore[key].value) ELSE 0

\* The counts at which calls are followed: the first ones and those around
\* the limit.
NearLimit(key, limit) ==
    \/ CounterOf(key) < MaxFreshCalls
    \/ CounterOf(key) >= limit - 1 /\ CounterOf(key) <= limit + MaxOverLimit

\* checkRateLimit's catch block (rateLimit.ts:20-27).
RateLimitCatch_Rethrow == "raise"

RateLimitCatch == "failOpen"

\* checkRateLimit({key, limit, windowSec}) on a store whose incr or expire
\* may reject: the catch block answers allowed with remaining = limit.
checkRateLimitOn(store, t, key, limit, windowSec, rejectIncr, rejectExpire) ==
    LET r1 == memIncr(store, key, t)
        r2 == memExpire(r1.store, key, windowSec, t)
        failOpen(s) == [store |-> s, allowed |-> TRUE, remaining |-> limit, caught |-> TRUE,
                        raised |-> RateLimitCatch = "raise"]
    IN  IF rejectIncr THEN failOpen(store)
        ELSE IF r1.ret = 1 /\ rejectExpire THEN failOpen(r1.store)
        ELSE [store |-> IF r1.ret = 1 THEN r2.store ELSE r1.store,
              allowed |-> r1.ret <= limit,
              remaining |-> IF limit - r1.ret > 0 THEN limit - r1.ret ELSE 0,
              caught |-> FALSE,
              raised |-> FALSE]

\* `if (!guard.allowed) return ...`: where a guard's answer sends the call.
AfterGuard_Open(allowed, next) == next

AfterGuard(allowed, next) == IF allowed THEN next ELSE "fallback"

\* cachedQuery's first catch block: log, go on to queryFn.
AfterReadError_Rethrow == "raise"

AfterReadError == "query"

\* cachedQuery's second catch block: log, return the result.
AfterWriteError == "return"

\* withAuth returns its fallback.
Fallback(f) == [f EXCEPT !.pc = "done", !.result = <<>>, !.isFallback = TRUE]

\* withAuth -> getUserId: the auth guard (part_005:434-440).
FetchBegin ==
    \E r1 \in BOOLEAN, r2 \in BOOLEAN :
        LET g == checkRateLimitOn(FetchStore, now, AuthRateKey, AUTH_LIMIT, AUTH_WINDOW_SEC,
                                  r1, r2)
        IN  /\ ft.pc = "idle"
            /\ NearLimit(AuthRateKey, AUTH_LIMIT)
            /\ NearLimit(IpRateKey, IP_LIMIT)
            /\ NearLimit(UserRateKey, USER_LIMIT)
            /\ stores' = [stores EXCEPT !["mem"] = g.store]
            /\ ft' = IF AfterGuard(g.allowed, "getUser") = "fallback"
                     THEN Fallback([NoFetch EXCEPT !.authOk = "denied"])
                     ELSE [NoFetch EXCEPT !.pc = "getUser", !.authOk = "allowed"]
            /\ UNCHANGED << now, redisUrl, dead, db, cq, inv, firstMiss, rlc, px >>
            /\ UNCHANGED clientVars

\* getUserId: supabase.auth.getUser() names a user or none; withAuth returns
\* the fallback for none (part_005:442-445, 478-479).
FetchGetUser ==
    \E u \in { U1, <<>> } :
        /\ ft.pc = "getUser"
        /\ ft' = IF u = <<>> THEN Fallback(ft)
                 ELSE [ft EXCEPT !.pc = "ipGuard", !.user = u]
        /\ UNCHANGED << cacheVars, rlc, px >>
        /\ UNCHANGED clientVars

\* allowReadBurst: the IP guard (part_005:409-418).
FetchIpGuard ==
    \E r1 \in BOOLEAN, r2 \in BOOLEAN :
        LET g == checkRateLimitOn(FetchStore, now, IpRateKey, IP_LIMIT, READ_WINDOW_SEC, r1, r2)
        IN  /\ ft.pc = "ipGuard"
            /\ stores' = [stores EXCEPT !["mem"] = g.store]
            /\ ft' = IF AfterGuard(g.allowed, "userGuard") = "fallback"
                     THEN Fallback([ft EXCEPT !.ipOk = "denied"])
                     ELSE [ft EXCEPT !.pc = "userGuard",
                                     !.ipOk = IF g.allowed THEN "allowed" ELSE "denied"]
            /\ UNCHANGED << now, redisUrl, dead, db, cq, inv, firstMiss, rlc, px >>
            /\ UNCHANGED clientVars

\* allowReadBurst: the user guard (part_005:420-430).
FetchUserGuard ==
    \E r1 \in BOOLEAN, r2 \in BOOLEAN :
        LET g == checkRateLimitOn(FetchStore, now, UserRateKey, USER_LIMIT, READ_WINDOW_SEC,
                                  r1, r2)
        IN  /\ ft.pc = "userGuard"
            /\ stores' = [stores EXCEPT !["mem"] = g.store]
            /\ ft' = IF AfterGuard(g.allowed, "get") = "fallback"
                     THEN Fallback([ft EXCEPT !.userOk = "denied"])
                     ELSE [ft EXCEPT !.pc = "get",
                                     !.userOk = IF g.allowed THEN "allowed" ELSE "denied"]
            /\ UNCHANGED << now, redisUrl, dead, db, cq, inv, firstMiss, rlc, px >>
            /\ UNCHANGED clientVars

\* cachedQuery: `const cached = await redis.get(cacheKey); if (cached)
\* return JSON.parse(cached)` inside try/catch (part_005:459-463).
CacheGetAt(pc) ==
    \E reject \in BOOLEAN :
        LET r == memGet(FetchStore, FetchKey, now)
            hit == ~reject /\ Truthy(r.ret) /\ Parse(r.ret.str).ok
            garbled == ~reject /\ Truthy(r.ret) /\ ~Parse(r.ret.str).ok
            next == IF hit THEN "done"
                    ELSE IF reject \/ garbled THEN AfterReadError ELSE "query"
        IN  /\ ft.pc = pc
            /\ stores' = IF reject THEN stores ELSE [stores EXCEPT !["mem"] = r.store]
            /\ ft' = [ft EXCEPT !.pc = IF next = "raise" THEN "done" ELSE next,
                                !.raised = (next = "raise"),
                                !.touchedCache = TRUE,
                                !.readRaised = reject,
                                !.unparsable = garbled,
                                !.result = IF hit THEN Parse(r.ret.str).val ELSE <<>>]
            /\ UNCHANGED << now, redisUrl, dead, db, cq, inv, firstMiss, rlc, px >>
            /\ UNCHANGED clientVars

FetchCacheGet == CacheGetAt("get")

\* cachedQuery: `const result = await queryFn()` with _tasksCore's queryFn;
\* supabase answers with rows or with { data: null, error }
\* (part_005:465, 488-494).
FetchQuery ==
    \E failed \in BOOLEAN :
        /\ ft.pc = "query"
        /\ ft' = [ft EXCEPT !.pc = "set",
                            !.touchedDb = TRUE,
                            !.queryFailed = failed,
                            !.invoked = ft.invoked + 1,
                            !.rows = QueryFnResult(db["tasks"][ft.user], failed),
                            !.result = QueryFnResult(db["tasks"][ft.user], failed)]
        /\ UNCHANGED << cacheVars, rlc, px >>
        /\ UNCHANGED clientVars

\* cachedQuery: redis.set inside try/catch, then `return result`
\* (part_005:467-469).
CacheSetAt(pc) ==
    \E reject \in BOOLEAN :
        LET r == memSet(FetchStore, FetchKey, Stringify(ft.result), TTL("tasks"), now)
        IN  /\ ft.pc = pc
            /\ stores' = IF reject THEN stores ELSE [stores EXCEPT !["mem"] = r.store]
            /\ ft' = [ft EXCEPT !.pc = "done",
                                !.raised = (reject /\ AfterWriteError # "return"),
                                !.writeRaised = reject,
                                !.wroteCache = ~reject]
            /\ UNCHANGED << now, redisUrl, dead, db, cq, inv, firstMiss, rlc, px >>
            /\ UNCHANGED clientVars

FetchCacheSet == CacheSetAt("set")

\* The caller of fetchTasks takes the answer.
FetchReturn ==
    /\ ft.pc = "done"
    /\ ft' = NoFetch
    /\ UNCHANGED << cacheVars, rlc, px >>
    /\ UNCHANGED clientVars

\* Other requests of the window bring a guard's counter to one below its
\* limit.
CounterBurst ==
    \E g \in { << AuthRateKey, AUTH_LIMIT, AUTH_WINDOW_SEC >>,
               << IpRateKey, IP_LIMIT, READ_WINDOW_SEC >>,
               << UserRateKey, USER_LIMIT, READ_WINDOW_SEC >> } :
        /\ ft.pc = "idle"
        /\ CounterOf(g[1]) < g[2] - 1
        /\ stores' = [stores EXCEPT !["mem"][g[1]] =
                        [present |-> TRUE, value |-> NumToStr(g[2] - 1),
                         expiresAt |-> now + g[3] * MS_PER_SEC]]
        /\ UNCHANGED << now, redisUrl, dead, db, cq, inv, firstMiss, ft, rlc, px >>
        /\ UNCHANGED clientVars

\* Another writer of the shared store leaves a value that is not JSON
\* under the cache key.
CacheCorrupted ==
    /\ ft.pc = "idle"
    /\ FetchStore[FetchKey] # [present |-> TRUE, value |-> << "x" >>, expiresAt |-> 0]
    /\ stores' = [stores EXCEPT !["mem"][FetchKey] =
                    [present |-> TRUE, value |-> << "x" >>, expiresAt |-> 0]]
    /\ UNCHANGED << now, redisUrl, dead, db, cq, inv, firstMiss, ft, rlc, px >>
    /\ UNCHANGED clientVars

FetchNext ==
    \/ FetchBegin
    \/ FetchGetUser
    \/ FetchIpGuard
    \/ FetchUserGuard
    \/ FetchCacheGet
    \/ FetchQuery
    \/ FetchCacheSet
    \/ FetchReturn
    \/ CounterBurst
    \/ CacheCorrupted
    \/ DbWrite

FetchInit ==
    /\ cipherPc = "idle"
    /\ cipherIn = <<>>
    /\ cipherKey = NoKey
    /\ cipherBlob = <<>>
    /\ cipherDecKey = NoKey
    /\ cipherOut = NoResult
    /\ sessionKey = NoKey
    /\ lsKey = Absent
    /\ lsSalt = Absent
    /\ storageAvailable = TRUE
    /\ setPc = "idle"
    /\ setArgs = [key |-> NoKey, salt |-> <<>>]
    /\ rsPc = "idle"
    /\ rsRaw = <<>>
    /\ rsCaller = "none"
    /\ fc = NoCall
    /\ restoreRet = "none"
    /\ lastSet = NoSet
    /\ reloaded = FALSE
    /\ loggedOut = "no"
    /\ mounted = FALSE
    /\ layoutPc = "unmounted"
    /\ cancelled = FALSE
    /\ authLoading = TRUE
    /\ storeUser = FALSE
    /\ dataLoaded = [e \in LoaderEntities |-> FALSE]
    /\ queryPc = [e \in LoaderEntities |-> "idle"]
    /\ xpPc = "idle"
    /\ layoutRestored = FALSE
    /\ now = 0
    /\ stores = [s \in {"mem", "remote"} |-> EmptyStore]
    /\ redisUrl = FALSE
    /\ dead = FALSE
    /\ db = [e \in CacheEntities |-> [u \in UserIds |-> <<>>]]
    /\ cq = [c \in Callers |-> IdleCall]
    /\ inv = IdleInv
    /\ firstMiss = NoMiss
    /\ h = NoHandler
    /\ ft = NoFetch
    /\ rlc = NoRateCall
    /\ px = NoProxyCall
    /\ xp = NoXp
    /\ mut = NoMutation
    /\ conn = NoConnection
    /\ iso = NoIsolation
    /\ auth = NoAuth

SpecFetch == FetchInit /\ [][FetchNext]_vars

\* ============================================================ rate limiter
\* checkRateLimit({ key, limit, windowSec }) called again and again on one
\* key while time passes.  rlc.calls counts the calls since rlc.start, the
\* time of the first call of the window that is running.
RateCall ==
    \E rejectIncr \in BOOLEAN, rejectExpire \in BOOLEAN :
        LET g == checkRateLimitOn(stores["mem"], now, RateKey, rlc.limit, rlc.windowSec,
                                  rejectIncr, rejectExpire)
            inWindow == rlc.calls > 0 /\ now < rlc.start + rlc.windowSec * MS_PER_SEC
            calls == IF inWindow THEN rlc.calls + 1 ELSE 1
        IN  /\ calls <= rlc.limit + 2
            /\ stores' = [stores EXCEPT !["mem"] = g.store]
            /\ rlc' = [rlc EXCEPT !.calls = calls,
                                  !.start = IF inWindow THEN rlc.start ELSE now,
                                  !.faulted = rlc.faulted \/ g.caught,
                                  !.answered = TRUE,
                                  !.allowed = g.allowed,
                                  !.remaining = g.remaining,
                                  !.raised = g.raised,
                                  !.failedCall = g.caught,
                                  !.deniedBefore = rlc.deniedBefore
                                                   \/ (rlc.answered /\ ~rlc.allowed)]
            /\ UNCHANGED << now, redisUrl, dead, db, cq, inv, firstMiss, ft, px >>
            /\ UNCHANGED clientVars

RateTick ==
    /\ now + RateTickMs <= MaxRateClock
    /\ now' = now + RateTickMs
    /\ UNCHANGED << stores, redisUrl, dead, db, cq, inv, firstMiss, serverCallVars >>
    /\ UNCHANGED clientVars

RateNext ==
    \/ RateCall
    \/ RateTick

RateInit ==
    /\ cipherPc = "idle"
    /\ cipherIn = <<>>
    /\ cipherKey = NoKey
    /\ cipherBlob = <<>>
    /\ cipherDecKey = NoKey
    /\ cipherOut = NoResult
    /\ sessionKey = NoKey
    /\ lsKey = Absent
    /\ lsSalt = Absent
    /\ storageAvailable = TRUE
    /\ setPc = "idle"
    /\ setArgs = [key |-> NoKey, salt |-> <<>>]
    /\ rsPc = "idle"
    /\ rsRaw = <<>>
    /\ rsCaller = "none"
    /\ fc = NoCall
    /\ restoreRet = "none"
    /\ lastSet = NoSet
    /\ reloaded = FALSE
    /\ loggedOut = "no"
    /\ mounted = FALSE
    /\ layoutPc = "unmounted"
    /\ cancelled = FALSE
    /\ authLoading = TRUE
    /\ storeUser = FALSE
    /\ dataLoaded = [e \in LoaderEntities |-> FALSE]
    /\ queryPc = [e \in LoaderEntities |-> "idle"]
    /\ xpPc = "idle"
    /\ layoutRestored = FALSE
    /\ now = 0
    /\ stores = [s \in {"mem", "remote"} |-> EmptyStore]
    /\ redisUrl = FALSE
    /\ dead = FALSE
    /\ db = [e \in CacheEntities |-> [u \in UserIds |-> <<>>]]
    /\ cq = [c \in Callers |-> IdleCall]
    /\ inv = IdleInv
    /\ firstMiss = NoMiss
    /\ h = NoHandler
    /\ ft = NoFetch
    /\ rlc \in { [NoRateCall EXCEPT !.limit = l, !.windowSec = w] :
                    l \in RateLimits, w \in RateWindows }
    /\ px = NoProxyCall
    /\ xp = NoXp
    /\ mut = NoMutation
    /\ conn = NoConnection
    /\ iso = NoIsolation
    /\ auth = NoAuth

SpecRateLimit == RateInit /\ [][RateNext]_vars

\* ============================================================= store proxy
\* One operation of the object makeRedisClient returns, on one key.
ProxyPattern == << "rl", ":", "*" >>

\* The operation as a store holding the rate key answers it: [store, ret].
StoreAnswer(op, store, t) ==
    CASE op = "get" -> memGet(store, RateKey, t)
      [] op = "set" -> memSet(store, RateKey, Stringify(<< 1, 2 >>), TTL_TASKS, t)
      [] op = "del" -> memDel(store, { RateKey })
      [] op = "keys" -> memKeys(store, ProxyPattern, t)
      [] op = "incr" -> memIncr(store, RateKey, t)
      [] op = "expire" -> memExpire(store, RateKey, AUTH_WINDOW_SEC, t)

\* `.catch(() => { dead = true; return mem.op(...a); })`
ProxyCatch_Rethrow == "raise"

ProxyCatch == "mem"

ProxyCall ==
    \E op \in StoreOps, fail \in FailChoices :
        LET tg == TargetOf(dead, fail)
            r == StoreAnswer(op, stores[tg], now)
            raises == fail /\ ProxyCatch = "raise"
        IN  /\ op = "incr" =>
                (stores[tg][RateKey].present =>
                    StrToNum(stores[tg][RateKey].value) < MaxProxyCount)
            /\ stores' = IF raises THEN stores
                         ELSE StoresAfter(stores, tg, r.store, dead \/ fail)
            /\ dead' = (dead \/ (fail /\ ~raises))
            /\ px' = [op |-> op, failed |-> fail, raised |-> raises,
                      ret |-> IF raises THEN <<>> ELSE r.ret,
                      memRet |-> StoreAnswer(op, stores["mem"], now).ret,
                      wasDead |-> dead, configured |-> redisUrl]
            /\ UNCHANGED << now, redisUrl, db, cq, inv, firstMiss, ft, rlc >>
            /\ UNCHANGED clientVars

ProxyNext ==
    \/ ProxyCall
    \/ RedisConnectionError
    \/ Tick

ProxyInit ==
    /\ cipherPc = "idle"
    /\ cipherIn = <<>>
    /\ cipherKey = NoKey
    /\ cipherBlob = <<>>
    /\ cipherDecKey = NoKey
    /\ cipherOut = NoResult
    /\ sessionKey = NoKey
    /\ lsKey = Absent
    /\ lsSalt = Absent
    /\ storageAvailable = TRUE
    /\ setPc = "idle"
    /\ setArgs = [key |-> NoKey, salt |-> <<>>]
    /\ rsPc = "idle"
    /\ rsRaw = <<>>
    /\ rsCaller = "none"
    /\ fc = NoCall
    /\ restoreRet = "none"
    /\ lastSet = NoSet
    /\ reloaded = FALSE
    /\ loggedOut = "no"
    /\ mounted = FALSE
    /\ layoutPc = "unmounted"
    /\ cancelled = FALSE
    /\ authLoading = TRUE
    /\ storeUser = FALSE
    /\ dataLoaded = [e \in LoaderEntities |-> FALSE]
    /\ queryPc = [e \in LoaderEntities |-> "idle"]
    /\ xpPc = "idle"
    /\ layoutRestored = FALSE
    /\ now = 0
    /\ stores = [s \in {"mem", "remote"} |-> EmptyStore]
    /\ redisUrl \in BOOLEAN
    /\ dead = FALSE
    /\ db = [e \in CacheEntities |-> [u \in UserIds |-> <<>>]]
    /\ cq = [c \in Callers |-> IdleCall]
    /\ inv = IdleInv
    /\ firstMiss = NoMiss
    /\ h = NoHandler
    /\ ft = NoFetch
    /\ rlc = NoRateCall
    /\ px = NoProxyCall
    /\ xp = NoXp
    /\ mut = NoMutation
    /\ conn = NoConnection
    /\ iso = NoIsolation
    /\ auth = NoAuth

SpecProxy == ProxyInit /\ [][ProxyNext]_vars

\* ====================================================== mutation handlers
\* A handler is invoked.
HandlerStart ==
    /\ h.name = "none"
    /\ \E hd \in Handlers :
        h' = [NoHandler EXCEPT !.name = hd.name, !.entity = hd.entity,
                               !.invalidates = hd.invalidates,
                               !.stopOnError = hd.stopOnError, !.steps = StepsOf(hd)]
    /\ UNCHANGED notHandler

\* The handler reaches its next `await`: the call is issued.  An awardXp on
\* a branch not taken is passed over.
HandlerStepBegin ==
    /\ h.name # "none"
    /\ h.cur = "none"
    /\ ~h.done
    /\ h.steps # <<>>
    /\ \E taken \in (IF Head(h.steps) = "xp?" THEN BOOLEAN ELSE {TRUE}) :
        h' = IF ~taken THEN [h EXCEPT !.steps = Tail(h.steps)]
             ELSE IF Head(h.steps) = "invalidate"
             THEN [h EXCEPT !.cur = "invalidate", !.steps = Tail(h.steps),
                            !.invCalled = TRUE, !.invAfterWrite = h.writeSettled,
                            !.invEntity = h.invalidates]
             ELSE [h EXCEPT !.cur = Head(h.steps), !.steps = Tail(h.steps)]
    /\ UNCHANGED notHandler

\* The supabase write settles, with the row written or with an error.
HandlerWriteSettled ==
    /\ h.cur = "write"
    /\ \E ok \in BOOLEAN :
        h' = [h EXCEPT !.cur = "none",
                       !.writeSettled = TRUE,
                       !.wrote = IF ok THEN h.entity ELSE "none",
                       !.steps = IF ~ok /\ h.stopOnError THEN <<>> ELSE h.steps]
    /\ UNCHANGED notHandler

\* awardXp or the profile update resolves.
HandlerAwaitResolved ==
    /\ h.cur \in {"xp", "xp?", "profile"}
    /\ h' = [h EXCEPT !.cur = "none"]
    /\ UNCHANGED notHandler

\* invalidateEntity returns to the handler.
HandlerInvalidated ==
    /\ h.cur = "invalidate"
    /\ h' = [h EXCEPT !.cur = "none", !.invReturned = TRUE]
    /\ UNCHANGED notHandler

\* The handler has run to its end.
HandlerDone ==
    /\ h.name # "none"
    /\ h.cur = "none"
    /\ h.steps = <<>>
    /\ ~h.done
    /\ h' = [h EXCEPT !.done = TRUE]
    /\ UNCHANGED notHandler

HandlerReset ==
    /\ h.done
    /\ h' = NoHandler
    /\ UNCHANGED notHandler

HandlerNext ==
    \/ HandlerStart
    \/ HandlerStepBegin
    \/ HandlerWriteSettled
    \/ HandlerAwaitResolved
    \/ HandlerInvalidated
    \/ HandlerDone
    \/ HandlerReset

HandlerInit ==
    /\ cipherPc = "idle"
    /\ cipherIn = <<>>
    /\ cipherKey = NoKey
    /\ cipherBlob = <<>>
    /\ cipherDecKey = NoKey
    /\ cipherOut = NoResult
    /\ sessionKey = NoKey
    /\ lsKey = Absent
    /\ lsSalt = Absent
    /\ storageAvailable = TRUE
    /\ setPc = "idle"
    /\ setArgs = [key |-> NoKey, salt |-> <<>>]
    /\ rsPc = "idle"
    /\ rsRaw = <<>>
    /\ rsCaller = "none"
    /\ fc = NoCall
    /\ restoreRet = "none"
    /\ lastSet = NoSet
    /\ reloaded = FALSE
    /\ loggedOut = "no"
    /\ mounted = FALSE
    /\ layoutPc = "unmounted"
    /\ cancelled = FALSE
    /\ authLoading = TRUE
    /\ storeUser = FALSE
    /\ dataLoaded = [e \in LoaderEntities |-> FALSE]
    /\ queryPc = [e \in LoaderEntities |-> "idle"]
    /\ xpPc = "idle"
    /\ layoutRestored = FALSE
    /\ now = 0
    /\ stores = [s \in {"mem", "remote"} |-> EmptyStore]
    /\ redisUrl = FALSE
    /\ dead = FALSE
    /\ db = [e \in CacheEntities |-> [u \in UserIds |-> <<>>]]
    /\ cq = [c \in Callers |-> IdleCall]
    /\ inv = IdleInv
    /\ firstMiss = NoMiss
    /\ h = NoHandler
    /\ ft = NoFetch
    /\ rlc = NoRateCall
    /\ px = NoProxyCall
    /\ xp = NoXp
    /\ mut = NoMutation
    /\ conn = NoConnection
    /\ iso = NoIsolation
    /\ auth = NoAuth

SpecHandlers == HandlerInit /\ [][HandlerNext]_vars

\* ============================================================ field cipher
\* A caller encrypts a string under a key.
CipherEncrypt ==
    /\ cipherPc = "idle"
    /\ \E x \in Strings, k \in Keys, iv \in Ivs, salt \in Salts :
        /\ cipherIn' = x
        /\ cipherKey' = k
        /\ cipherBlob' = encrypt(x, k, iv, salt)
    /\ cipherPc' = "encrypted"
    /\ UNCHANGED << cipherDecKey, cipherOut >>
    /\ UNCHANGED notCipher

\* A caller decrypts the stored blob under a key of its choice.
CipherDecrypt ==
    /\ cipherPc = "encrypted"
    /\ \E k \in Keys :
        /\ cipherDecKey' = k
        /\ cipherOut' = decrypt(cipherBlob, k)
    /\ cipherPc' = "decrypted"
    /\ UNCHANGED << cipherIn, cipherKey, cipherBlob >>
    /\ UNCHANGED notCipher

CipherReset ==
    /\ cipherPc = "decrypted"
    /\ cipherPc' = "idle"
    /\ cipherIn' = <<>>
    /\ cipherKey' = NoKey
    /\ cipherBlob' = <<>>
    /\ cipherDecKey' = NoKey
    /\ cipherOut' = NoResult
    /\ UNCHANGED notCipher

CipherNext == CipherEncrypt \/ CipherDecrypt \/ CipherReset

CipherInit ==
    /\ cipherPc = "idle"
    /\ cipherIn = <<>>
    /\ cipherKey = NoKey
    /\ cipherBlob = <<>>
    /\ cipherDecKey = NoKey
    /\ cipherOut = NoResult
    /\ sessionKey = NoKey
    /\ lsKey = Absent
    /\ lsSalt = Absent
    /\ storageAvailable = TRUE
    /\ setPc = "idle"
    /\ setArgs = [key |-> NoKey, salt |-> <<>>]
    /\ rsPc = "idle"
    /\ rsRaw = <<>>
    /\ rsCaller = "none"
    /\ fc = NoCall
    /\ restoreRet = "none"
    /\ lastSet = NoSet
    /\ reloaded = FALSE
    /\ loggedOut = "no"
    /\ mounted = FALSE
    /\ layoutPc = "unmounted"
    /\ cancelled = FALSE
    /\ authLoading = TRUE
    /\ storeUser = FALSE
    /\ dataLoaded = [e \in LoaderEntities |-> FALSE]
    /\ queryPc = [e \in LoaderEntities |-> "idle"]
    /\ xpPc = "idle"
    /\ layoutRestored = FALSE
    /\ now = 0
    /\ stores = [s \in {"mem", "remote"} |-> EmptyStore]
    /\ redisUrl = FALSE
    /\ dead = FALSE
    /\ db = [e \in CacheEntities |-> [u \in UserIds |-> <<>>]]
    /\ cq = [c \in Callers |-> IdleCall]
    /\ inv = IdleInv
    /\ firstMiss = NoMiss
    /\ h = NoHandler
    /\ ft = NoFetch
    /\ rlc = NoRateCall
    /\ px = NoProxyCall
    /\ xp = NoXp
    /\ mut = NoMutation
    /\ conn = NoConnection
    /\ iso = NoIsolation
    /\ auth = NoAuth

SpecCipher == CipherInit /\ [][CipherNext]_vars

\* ============================================================== claims

C3_LogoutClears ==
    loggedOut # "no" => (~hasSessionKey /\ restoreRet # "true")

C3_Witness ==
    /\ loggedOut = "cleared"
    /\ restoreRet = "false"
    /\ storageAvailable

\* C4: encryptField(value) calls restoreSessionKey once when no key is
\* resident; with no key after that it returns value unchanged, with a key
\* it returns encrypt(value, key) and never the plaintext; it raises nothing.
C4_EncryptField ==
    (fc.op = "encryptField" /\ fc.done) =>
        /\ ~fc.raised
        /\ fc.restores <= 1
        /\ fc.key = NoKey => (fc.restores = 1 /\ fc.out = fc.in)
        /\ fc.key # NoKey =>
            /\ fc.out # fc.in
            /\ \E iv \in Ivs : fc.out = encrypt(fc.in, fc.key, iv, Salt0)

C4_Witness ==
    /\ fc.op = "encryptField"
    /\ fc.done
    /\ fc.restores = 1
    /\ fc.key \in Keys
    /\ fc.out # fc.in
    /\ decrypt(fc.out, fc.key).ok

\* C5: decryptField(value) never raises; it returns value unchanged when no
\* key is resident after the recovery attempt and when decryption under the
\* resident key fails; what it returns differs from value only when it is
\* the plaintext decrypt produced under the resident key.
C5_DecryptField ==
    (fc.op = "decryptField" /\ fc.done) =>
        /\ ~fc.raised
        /\ fc.key = NoKey => fc.out = fc.in
        /\ (fc.key # NoKey /\ ~decrypt(fc.in, fc.key).ok) => fc.out = fc.in
        /\ fc.out # fc.in =>
            /\ fc.key # NoKey
            /\ decrypt(fc.in, fc.key).ok
            /\ fc.out = decrypt(fc.in, fc.key).val

C5_Witness ==
    /\ fc.op = "decryptField"
    /\ fc.done
    /\ fc.key = RawKey(34)
    /\ fc.in = encrypt(<< CP_A >>, RawKey(17), Iv0, Salt0)
    /\ fc.out = fc.in
    /\ ~fc.raised

\* C6: after a page load no decryptField call is issued before the
\* restoreSessionKey awaited by the layout has returned: while a loader's
\* decryptField call is out, the layout's restore has completed, and a
\* loader fetches only after it.
C6_RestoreBeforeDecrypt ==
    \A e \in LoaderEntities :
        queryPc[e] # "idle" => layoutRestored

C6_Witness ==
    /\ queryPc["journal"] = "decrypting"
    /\ fc.op = "decryptField"
    /\ fc.done
    /\ fc.key = RawKey(17)
    /\ fc.out = << CP_A >>
    /\ fc.in # fc.out
    /\ fc.restores = 0
    /\ layoutRestored

\* C7: a cachedQuery on a key that has no entry invokes queryFn exactly once
\* and returns what it returned; a later cachedQuery on the same key, begun
\* before the TTL of the stored entry has elapsed (nothing else having
\* written or deleted the key, the store not having failed over), does not
\* invoke queryFn and returns an equal result, the empty list included.
C7_CacheHit ==
    \A c \in Callers :
        cq[c].pc = "done" =>
            /\ cq[c].fresh => (cq[c].invoked = 1 /\ cq[c].result = cq[c].rows)
            /\ cq[c].expectHit => (cq[c].invoked = 0 /\ cq[c].result = cq[c].expected)

C7_Witness ==
    \E c \in Callers :
        /\ cq[c].pc = "done"
        /\ cq[c].expectHit
        /\ cq[c].expected = <<>>
        /\ cq[c].result = <<>>
        /\ cq[c].invoked = 0
        /\ db[cq[c].entity][cq[c].user] # <<>>
        /\ now > 0

\* C8: when invalidateEntity(E) called for user U has returned (no
\* cachedQuery having written a key of E and U meanwhile), no key of E and
\* U is served from the cache: the next cachedQuery on it misses.
C8_InvalidationEvicts ==
    (inv.pc = "done" /\ inv.quiet) =>
        \A q \in QueryShapes :
            (q.entity = inv.entity /\ q.user = inv.user) => ~Cached(q.key)

\* C9: when a handler that wrote a record of entity E has run to its end,
\* invalidateEntity(E) has been called for that entity and has returned.
C9_WriteInvalidatesEntity ==
    (h.done /\ h.wrote # "none") => (h.invReturned /\ h.invEntity = h.wrote)

\* C10: a handler invokes invalidateEntity only after its persistence write
\* has settled, and has not run to its end before the invalidation
\* returned.
C10_WriteBeforeInvalidate ==
    h.invCalled => (h.invAfterWrite /\ (h.done => h.invReturned))

C10_Witness ==
    /\ h.name = "habits.checkIn"
    /\ h.done
    /\ h.wrote = "habits"
    /\ h.invCalled
    /\ h.invAfterWrite
    /\ h.invReturned

\* C11: a cachedQuery whose cache read rejected or returned a value that is
\* not JSON went on to call queryFn once and returns its result; one whose
\* cache write rejected returns queryFn's result; no call ends by raising a
\* cache error.
C11_CacheErrorsNeverSurface ==
    (ft.pc = "done" /\ ~ft.isFallback) =>
        /\ ~ft.raised
        /\ (ft.readRaised \/ ft.unparsable) => (ft.invoked = 1 /\ ft.result = ft.rows)
        /\ ft.writeRaised => (ft.invoked = 1 /\ ft.result = ft.rows)

C11_Witness ==
    /\ ft.pc = "done"
    /\ ft.unparsable
    /\ ft.writeRaised
    /\ ft.invoked = 1
    /\ ft.result = << 1, 2 >>

\* C12: a fetch whose persistence query failed ends by raising to the
\* caller and has written nothing to the cache.
C12_QueryFailurePropagates ==
    (ft.pc = "done" /\ ft.queryFailed) => (ft.raised /\ ~ft.wroteCache)

\* C15: fetchTasks reads the cache or queries persistence only after the
\* auth guard allowed, a user id was resolved, and the IP guard and the user
\* guard allowed; otherwise it ends with its empty fallback, without
\* raising and without having touched the cache or the datastore.
C15_FetchOnlyWhenCleared ==
    LET cleared == /\ ft.authOk = "allowed"
                   /\ ft.user # <<>>
                   /\ ft.ipOk = "allowed"
                   /\ ft.userOk = "allowed"
    IN  /\ (ft.touchedCache \/ ft.touchedDb) => cleared
        /\ (ft.pc = "done" /\ ~cleared) =>
              /\ ft.isFallback
              /\ ft.result = <<>>
              /\ ~ft.raised
              /\ ~ft.touchedCache
              /\ ~ft.touchedDb

C15_Witness ==
    /\ ft.pc = "done"
    /\ ft.authOk = "allowed"
    /\ ft.user # <<>>
    /\ ft.ipOk = "allowed"
    /\ ft.userOk = "denied"
    /\ ft.isFallback

\* C13: while the counting store answers, the n-th call of a window is
\* answered allowed = (n <= limit) with remaining = max(0, limit - n): calls
\* 1..limit are allowed, call limit+1 is not, and the first call made once
\* windowSec has passed since the window's first call is allowed again.
C13_WindowedCount ==
    (rlc.answered /\ ~rlc.faulted) =>
        /\ rlc.allowed = (rlc.calls <= rlc.limit)
        /\ rlc.remaining = (IF rlc.limit - rlc.calls > 0 THEN rlc.limit - rlc.calls ELSE 0)
        /\ rlc.calls = 1 => rlc.allowed

C13_Witness ==
    /\ rlc.answered
    /\ ~rlc.faulted
    /\ rlc.deniedBefore
    /\ rlc.calls = 1
    /\ now = rlc.start
    /\ rlc.start = rlc.windowSec * MS_PER_SEC
    /\ rlc.allowed

\* C14: a checkRateLimit call whose incr or expire rejected raises nothing
\* and answers allowed with remaining = limit.
C14_FailOpen ==
    (rlc.answered /\ rlc.failedCall) =>
        /\ ~rlc.raised
        /\ rlc.allowed
        /\ rlc.remaining = rlc.limit

C14_Witness ==
    /\ rlc.answered
    /\ rlc.failedCall
    /\ rlc.calls > rlc.limit
    /\ rlc.allowed
    /\ rlc.remaining = rlc.limit

C17_ProxyNeverRaises ==
    px.op # "none" =>
        /\ ~px.raised
        /\ (px.failed \/ px.wasDead \/ ~px.configured) => px.ret = px.memRet
        /\ px.failed => dead

C17_Witness ==
    /\ px.op = "incr"
    /\ px.failed
    /\ ~px.wasDead
    /\ px.ret = 1
    /\ dead

\* C18: whenever no setSessionKey and no restoreSessionKey call is in
\* flight, the persisted key entry and the persisted salt entry are both
\* present or both absent.
C18_PersistedPair ==
    (setPc = "idle" /\ rsPc = "idle") => ((lsKey = Absent) <=> (lsSalt = Absent))

\* C19: a restoreSessionKey() call made while a key is resident returns true
\* and changes neither the resident key nor the two persisted entries.
C19_RestoreResidentNoOp ==
    [][ (sessionKey # NoKey /\ RestoreSessionKeyBegin) =>
            (restoreRet' = "true" /\ UNCHANGED << sessionKey, lsKey, lsSalt >>) ]_vars

C19_Witness ==
    /\ restoreRet = "true"
    /\ sessionKey # NoKey
    /\ lsKey = Absent
    /\ rsPc = "idle"
    /\ setPc = "idle"

\* C20: a restoreSessionKey() call made with no key resident returns false
\* and installs no key when storage cannot be read, holds no key or holds a
\* value that is not base64, and likewise when the decoded value is not
\* importable as a key.
C20_RestoreFailsClosed ==
    [][ /\ (/\ RestoreSessionKeyBegin
            /\ sessionKey = NoKey
            /\ (~storageAvailable \/ Falsy(lsKey) \/ ~Atob(lsKey).ok))
           => (restoreRet' = "false" /\ sessionKey' = NoKey)
        /\ (RestoreSessionKeyFinish /\ ~Importable(rsRaw))
           => (restoreRet' = "false" /\ sessionKey' = sessionKey) ]_vars

C20_Witness ==
    /\ restoreRet = "false"
    /\ sessionKey = NoKey
    /\ storageAvailable
    /\ lsKey = Btoa(<< 1, 2, 3 >>)
    /\ rsPc = "idle"
    /\ setPc = "idle"

\* ------------------------------------------------------------ awardXp calls
\* XP_REWARDS.TASK_COMPLETE and XP_REWARDS.HABIT_CHECKIN (store.ts:229-230).
TASK_COMPLETE == 10

HABIT_CHECKIN == 15

\* The amount each caller awards: toggleComplete (tasks/page.tsx:131) and
\* checkIn (habits/page.tsx:62).
XpAmount == [toggleComplete |-> TASK_COMPLETE, checkIn |-> HABIT_CHECKIN]

\* awardXp calls made in one run of the model.
MaxAwards == 3

InitialXps == {0, 5}

\* awardXp up to its await (xp.ts:12-18): it reads the store's user, adds the
\* amount to the XP it read, and issues the profiles update with the sum.
AwardXpIssue(c) ==
    /\ xp.calls[c].pc = "idle"
    /\ xp.issued < MaxAwards
    /\ xp' = [xp EXCEPT !.issued = @ + 1,
                        !.calls[c] = [pc |-> "updating", amount |-> XpAmount[c],
                                      newXp |-> xp.store + XpAmount[c]]]
    /\ UNCHANGED << mut, conn, iso, auth >>
    /\ UNCHANGED baseVars

\* The update reaches the profiles row: xp becomes the value the call sent
\* (xp.ts:18, update({ xp: newXp })).
AwardXpUpdateLands(c) ==
    /\ xp.calls[c].pc = "updating"
    /\ xp' = [xp EXCEPT !.persisted = xp.calls[c].newXp,
                        !.calls[c].pc = "landed"]
    /\ UNCHANGED << mut, conn, iso, auth >>
    /\ UNCHANGED baseVars

\* awardXp after its await (xp.ts:19-20): setUser({ ...user, xp: newXp })
\* with the user and the sum of before the await.
AwardXpReturn(c) ==
    /\ xp.calls[c].pc = "landed"
    /\ xp' = [xp EXCEPT !.store = xp.calls[c].newXp,
                        !.awarded = @ + xp.calls[c].amount,
                        !.calls[c] = NoXpCall]
    /\ UNCHANGED << mut, conn, iso, auth >>
    /\ UNCHANGED baseVars

XpNext ==
    \/ \E c \in XpCallers : AwardXpIssue(c)
    \/ \E c \in XpCallers : AwardXpUpdateLands(c)
    \/ \E c \in XpCallers : AwardXpReturn(c)

XpInit ==
    /\ cipherPc = "idle"
    /\ cipherIn = <<>>
    /\ cipherKey = NoKey
    /\ cipherBlob = <<>>
    /\ cipherDecKey = NoKey
    /\ cipherOut = NoResult
    /\ sessionKey = NoKey
    /\ lsKey = Absent
    /\ lsSalt = Absent
    /\ storageAvailable = TRUE
    /\ setPc = "idle"
    /\ setArgs = [key |-> NoKey, salt |-> <<>>]
    /\ rsPc = "idle"
    /\ rsRaw = <<>>
    /\ rsCaller = "none"
    /\ fc = NoCall
    /\ restoreRet = "none"
    /\ lastSet = NoSet
    /\ reloaded = FALSE
    /\ loggedOut = "no"
    /\ mounted = FALSE
    /\ layoutPc = "unmounted"
    /\ cancelled = FALSE
    /\ authLoading = TRUE
    /\ storeUser = FALSE
    /\ dataLoaded = [e \in LoaderEntities |-> FALSE]
    /\ queryPc = [e \in LoaderEntities |-> "idle"]
    /\ xpPc = "idle"
    /\ layoutRestored = FALSE
    /\ now = 0
    /\ stores = [s \in {"mem", "remote"} |-> EmptyStore]
    /\ redisUrl = FALSE
    /\ dead = FALSE
    /\ db = [e \in CacheEntities |-> [u \in UserIds |-> <<>>]]
    /\ cq = [c \in Callers |-> IdleCall]
    /\ inv = IdleInv
    /\ firstMiss = NoMiss
    /\ h = NoHandler
    /\ ft = NoFetch
    /\ rlc = NoRateCall
    /\ px = NoProxyCall
    /\ xp \in {[NoXp EXCEPT !.initial = x, !.store = x, !.persisted = x] : x \in InitialXps}
    /\ mut = NoMutation
    /\ conn = NoConnection
    /\ iso = NoIsolation
    /\ auth = NoAuth

SpecXp == XpInit /\ [][XpNext]_vars

\* C21: once every awardXp call has finished, calls issued while an earlier
\* one awaited its update included, the persisted XP and the store's XP both
\* equal the initial XP plus the sum of the awarded amounts.
C21_XpIsSumOfAwards ==
    (\A c \in XpCallers : xp.calls[c].pc = "idle") =>
        /\ xp.store = xp.initial + xp.awarded
        /\ xp.persisted = xp.initial + xp.awarded

\* ------------------------------------- a mutation beside a running cachedQuery
\* A mutation handler for entity E of user U: it writes the rows, then
\* awaits invalidateEntity(E) (tasks/page.tsx:103-121 and the like). The
\* cachedQuery calls of the fetchers run beside it.

\* The mutation's write to the persisted rows has completed.
MutationWrite ==
    \E q \in CalledShapes, rows \in RowLists :
        /\ mut.pc \in {"idle", "returned"}
        /\ inv.pc = "idle"
        /\ \A o \in Callers : cq[o].pc # "done"
        /\ db[q.entity][q.user] # rows
        /\ db' = [db EXCEPT ![q.entity][q.user] = rows]
        /\ mut' = [pc |-> "written", entity |-> q.entity, user |-> q.user,
                   before |-> db[q.entity][q.user], skipped |-> FALSE]
        /\ UNCHANGED << now, stores, redisUrl, dead, cq, inv, firstMiss >>
        /\ UNCHANGED << xp, conn, iso, auth >>
        /\ UNCHANGED besidesCache

\* The mutation calls invalidateEntity on the entity it wrote.
MutationInvalidateBegin ==
    /\ mut.pc = "written"
    /\ InvalidateBegin
    /\ inv'.entity = mut.entity
    /\ inv'.user = mut.user

\* invalidateEntity returns to the mutation, which returns to its caller.
MutationReturn ==
    /\ mut.pc = "written"
    /\ inv.pc = "done"
    /\ inv' = IdleInv
    /\ mut' = [mut EXCEPT !.pc = "returned", !.skipped = inv.skipped]
    /\ UNCHANGED << now, stores, redisUrl, dead, db, cq, firstMiss >>
    /\ UNCHANGED << xp, conn, iso, auth >>
    /\ UNCHANGED besidesCache

\* queryFn answers with the rows it read (the query does not fail).
CachedQueryRunOk ==
    /\ CachedQueryRun
    /\ \A c \in Callers :
          cq'[c].invoked > cq[c].invoked => cq'[c].result = db[cq[c].entity][cq[c].user]

MutationNext ==
    \/ CachedQueryBegin
    \/ CachedQueryRunOk
    \/ CachedQuerySet
    \/ CachedQueryReturn
    \/ MutationWrite
    \/ MutationInvalidateBegin
    \/ InvalidateKeys
    \/ InvalidateDel
    \/ MutationReturn
    \/ Tick

MutationInit ==
    /\ cipherPc = "idle"
    /\ cipherIn = <<>>
    /\ cipherKey = NoKey
    /\ cipherBlob = <<>>
    /\ cipherDecKey = NoKey
    /\ cipherOut = NoResult
    /\ sessionKey = NoKey
    /\ lsKey = Absent
    /\ lsSalt = Absent
    /\ storageAvailable = TRUE
    /\ setPc = "idle"
    /\ setArgs = [key |-> NoKey, salt |-> <<>>]
    /\ rsPc = "idle"
    /\ rsRaw = <<>>
    /\ rsCaller = "none"
    /\ fc = NoCall
    /\ restoreRet = "none"
    /\ lastSet = NoSet
    /\ reloaded = FALSE
    /\ loggedOut = "no"
    /\ mounted = FALSE
    /\ layoutPc = "unmounted"
    /\ cancelled = FALSE
    /\ authLoading = TRUE
    /\ storeUser = FALSE
    /\ dataLoaded = [e \in LoaderEntities |-> FALSE]
    /\ queryPc = [e \in LoaderEntities |-> "idle"]
    /\ xpPc = "idle"
    /\ layoutRestored = FALSE
    /\ now = 0
    /\ stores = [s \in {"mem", "remote"} |-> EmptyStore]
    /\ redisUrl = FALSE
    /\ dead = FALSE
    /\ db = [e \in CacheEntities |-> [u \in UserIds |-> <<>>]]
    /\ cq = [c \in Callers |-> IdleCall]
    /\ inv = IdleInv
    /\ firstMiss = NoMiss
    /\ h = NoHandler
    /\ ft = NoFetch
    /\ rlc = NoRateCall
    /\ px = NoProxyCall
    /\ xp = NoXp
    /\ mut = NoMutation
    /\ conn = NoConnection
    /\ iso = NoIsolation
    /\ auth = NoAuth

SpecMutation == MutationInit /\ [][MutationNext]_vars

\* C22: once a mutation of entity E of user U has written its rows and its
\* invalidateEntity(E) has returned, having run redis.keys and redis.del, a
\* cachedQuery on E of U that starts afterwards and is answered from the
\* cache returns the rows as written - also when another cachedQuery on the
\* same key had missed before and wrote its result back after the
\* invalidation.
C22_NoStaleHitAfterMutation ==
    \A c \in Callers :
        (/\ mut.pc = "returned"
         /\ ~mut.skipped
         /\ cq[c].pc = "done"
         /\ cq[c].invoked = 0
         /\ cq[c].entity = mut.entity
         /\ cq[c].user = mut.user)
            => cq[c].result = db[mut.entity][mut.user]

\* ------------------------------------ checkRateLimit through the store proxy
\* checkRateLimit on the exported redis (redis.ts:111-118): each of its two
\* operations goes to the shared store while the proxy is not dead, and to
\* the in-process store when the shared store fails it or is given up. Both
\* stores are followed: the shared one keeps what it holds when the proxy
\* gives it up.
checkRateLimitProxied(st, isDead, t, key, limit, windowSec, failIncr, failExpire) ==
    LET t1 == TargetOf(isDead, failIncr)
        r1 == memIncr(st[t1], key, t)
        d1 == isDead \/ (redisUrl /\ failIncr)
        s1 == [st EXCEPT ![t1] = r1.store]
        t2 == TargetOf(d1, failExpire)
        r2 == memExpire(s1[t2], key, windowSec, t)
        d2 == d1 \/ (redisUrl /\ failExpire)
    IN  [stores |-> IF r1.ret = 1 THEN [s1 EXCEPT ![t2] = r2.store] ELSE s1,
         dead |-> IF r1.ret = 1 THEN d2 ELSE d1,
         switched |-> (IF r1.ret = 1 THEN d2 ELSE d1) /\ ~isDead,
         allowed |-> r1.ret <= limit,
         remaining |-> IF limit - r1.ret > 0 THEN limit - r1.ret ELSE 0]

\* One checkRateLimit call on RateKey; the window of the ghost count starts
\* with the first call and lasts windowSec seconds.
RateProxyCall ==
    \E failIncr \in FailChoices, failExpire \in FailChoices :
        LET g == checkRateLimitProxied(stores, dead, now, RateKey, rlc.limit, rlc.windowSec,
                                       failIncr, failExpire)
            inWindow == rlc.calls > 0 /\ now < rlc.start + rlc.windowSec * MS_PER_SEC
            calls == IF inWindow THEN rlc.calls + 1 ELSE 1
            allowedBefore == IF inWindow THEN rlc.allowedInWindow ELSE 0
        IN  /\ calls <= rlc.limit + 2
            /\ stores' = g.stores
            /\ dead' = g.dead
            /\ rlc' = [rlc EXCEPT !.calls = calls,
                                  !.start = IF inWindow THEN rlc.start ELSE now,
                                  !.faulted = rlc.faulted \/ g.switched,
                                  !.answered = TRUE,
                                  !.allowed = g.allowed,
                                  !.remaining = g.remaining,
                                  !.failedCall = g.switched,
                                  !.deniedBefore = rlc.deniedBefore
                                                   \/ (rlc.answered /\ ~rlc.allowed),
                                  !.allowedInWindow =
                                      allowedBefore + (IF g.allowed THEN 1 ELSE 0)]
            /\ UNCHANGED << now, redisUrl, db, cq, inv, firstMiss, ft, px >>
            /\ UNCHANGED clientVars

RateProxyNext ==
    \/ RateProxyCall
    \/ RateTick

RateProxyInit ==
    /\ cipherPc = "idle"
    /\ cipherIn = <<>>
    /\ cipherKey = NoKey
    /\ cipherBlob = <<>>
    /\ cipherDecKey = NoKey
    /\ cipherOut = NoResult
    /\ sessionKey = NoKey
    /\ lsKey = Absent
    /\ lsSalt = Absent
    /\ storageAvailable = TRUE
    /\ setPc = "idle"
    /\ setArgs = [key |-> NoKey, salt |-> <<>>]
    /\ rsPc = "idle"
    /\ rsRaw = <<>>
    /\ rsCaller = "none"
    /\ fc = NoCall
    /\ restoreRet = "none"
    /\ lastSet = NoSet
    /\ reloaded = FALSE
    /\ loggedOut = "no"
    /\ mounted = FALSE
    /\ layoutPc = "unmounted"
    /\ cancelled = FALSE
    /\ authLoading = TRUE
    /\ storeUser = FALSE
    /\ dataLoaded = [e \in LoaderEntities |-> FALSE]
    /\ queryPc = [e \in LoaderEntities |-> "idle"]
    /\ xpPc = "idle"
    /\ layoutRestored = FALSE
    /\ now = 0
    /\ stores = [s \in {"mem", "remote"} |-> EmptyStore]
    /\ redisUrl \in BOOLEAN
    /\ dead = FALSE
    /\ db = [e \in CacheEntities |-> [u \in UserIds |-> <<>>]]
    /\ cq = [c \in Callers |-> IdleCall]
    /\ inv = IdleInv
    /\ firstMiss = NoMiss
    /\ h = NoHandler
    /\ ft = NoFetch
    /\ rlc \in { [NoRateCall EXCEPT !.limit = l, !.windowSec = w] : l \in RateLimits, w \in RateWindows }
    /\ px = NoProxyCall
    /\ xp = NoXp
    /\ mut = NoMutation
    /\ conn = NoConnection
    /\ iso = NoIsolation
    /\ auth = NoAuth

SpecRateProxy == RateProxyInit /\ [][RateProxyNext]_vars

\* C23: after every completed checkRateLimit call, a counter key that is
\* present in a store carries an expiry.
C23_CounterHasExpiry ==
    rlc.answered =>
        \A s \in {"mem", "remote"} :
            stores[s][RateKey].present => stores[s][RateKey].expiresAt # 0

\* C28: within one window of windowSec seconds, checkRateLimit answers
\* allowed = true to at most limit calls on one key, also when the shared
\* store fails in that window and the proxy goes over to the in-process store.
C28_AtMostLimitAllowed ==
    rlc.allowedInWindow <= rlc.limit

\* ------------------------------------------- the shared store's connection
\* The ioredis client of makeRedisClient (redis.ts:87-106): connect() is
\* called at construction; a connection that closes is retried after the
\* delay retryStrategy(times) returns, times counting the attempts since the
\* connection was last ready, and is ended when retryStrategy returns null.
MAX_RECONNECTS == 3

RETRY_STEP_MS == 200

RETRY_CAP_MS == 2000

\* retryStrategy's null.
NoRetry == -1

retryStrategy(times) ==
    IF times > MAX_RECONNECTS THEN NoRetry
    ELSE IF times * RETRY_STEP_MS < RETRY_CAP_MS THEN times * RETRY_STEP_MS ELSE RETRY_CAP_MS

\* The connection is established: the attempts are counted anew.
ConnectionReady ==
    /\ redisUrl
    /\ conn.status \in {"connecting", "reconnecting"}
    /\ conn' = [conn EXCEPT !.status = "ready", !.times = 0,
                            !.retriedWhenDead = @ \/ (dead /\ conn.status = "reconnecting")]
    /\ UNCHANGED << xp, mut, iso, auth >>
    /\ UNCHANGED baseVars

\* The connection closes or cannot be made. With an error the client emits
\* 'error', whose handler sets dead (redis.ts:100-103; a failed first
\* connect also rejects connect(), redis.ts:106); then retryStrategy decides.
ConnectionLost ==
    \E errorEvent \in BOOLEAN :
        LET times == conn.times + 1
            nowDead == dead \/ errorEvent
        IN  /\ redisUrl
            /\ conn.status \in {"connecting", "reconnecting", "ready"}
            /\ conn' = [conn EXCEPT
                          !.status = IF retryStrategy(times) = NoRetry THEN "end"
                                     ELSE "reconnecting",
                          !.times = times,
                          !.retriedWhenDead = @ \/ (dead /\ conn.status = "reconnecting")]
            /\ dead' = nowDead
            /\ stores' = IF nowDead THEN StoresAfter(stores, "mem", stores["mem"], TRUE)
                         ELSE stores
            /\ UNCHANGED << now, redisUrl, db, cq, inv, firstMiss >>
            /\ UNCHANGED << xp, mut, iso, auth >>
            /\ UNCHANGED besidesCache

\* An operation on the proxy: with enableOfflineQueue false a command on a
\* connection that is not ready is rejected (redis.ts:89).
ConnectionProxyCall ==
    /\ ProxyCall
    /\ (~dead /\ conn.status # "ready") => px'.failed

ConnectionNext ==
    \/ ConnectionReady
    \/ ConnectionLost
    \/ ConnectionProxyCall

ConnectionInit ==
    /\ cipherPc = "idle"
    /\ cipherIn = <<>>
    /\ cipherKey = NoKey
    /\ cipherBlob = <<>>
    /\ cipherDecKey = NoKey
    /\ cipherOut = NoResult
    /\ sessionKey = NoKey
    /\ lsKey = Absent
    /\ lsSalt = Absent
    /\ storageAvailable = TRUE
    /\ setPc = "idle"
    /\ setArgs = [key |-> NoKey, salt |-> <<>>]
    /\ rsPc = "idle"
    /\ rsRaw = <<>>
    /\ rsCaller = "none"
    /\ fc = NoCall
    /\ restoreRet = "none"
    /\ lastSet = NoSet
    /\ reloaded = FALSE
    /\ loggedOut = "no"
    /\ mounted = FALSE
    /\ layoutPc = "unmounted"
    /\ cancelled = FALSE
    /\ authLoading = TRUE
    /\ storeUser = FALSE
    /\ dataLoaded = [e \in LoaderEntities |-> FALSE]
    /\ queryPc = [e \in LoaderEntities |-> "idle"]
    /\ xpPc = "idle"
    /\ layoutRestored = FALSE
    /\ now = 0
    /\ stores = [s \in {"mem", "remote"} |-> EmptyStore]
    /\ redisUrl = TRUE
    /\ dead = FALSE
    /\ db = [e \in CacheEntities |-> [u \in UserIds |-> <<>>]]
    /\ cq = [c \in Callers |-> IdleCall]
    /\ inv = IdleInv
    /\ firstMiss = NoMiss
    /\ h = NoHandler
    /\ ft = NoFetch
    /\ rlc = NoRateCall
    /\ px = NoProxyCall
    /\ xp = NoXp
    /\ mut = NoMutation
    /\ conn = [NoConnection EXCEPT !.status = "connecting"]
    /\ iso = NoIsolation
    /\ auth = NoAuth

SpecConnection == ConnectionInit /\ [][ConnectionNext]_vars

\* C24: the proxy falls back to the in-process store only once the
\* connection's reconnect attempts are exhausted.
C24_FallbackOnlyWhenExhausted ==
    dead => conn.status = "end"

\* --------------------------------------- cachedQuery on a store that may hang
\* `await redis.get(cacheKey)` and `await redis.set(...)` in two steps each:
\* the call is made and cachedQuery is suspended, then the store answers -
\* with a value, with null or with a rejection. The client is created with
\* no commandTimeout and cachedQuery races the promise against nothing
\* (redis.ts:87-97, part_005:459-468), so only the answer resumes the call.
CacheGetIssue ==
    /\ ft.pc = "get"
    /\ ft' = [ft EXCEPT !.pc = "getWait"]
    /\ UNCHANGED << cacheVars, rlc, px >>
    /\ UNCHANGED clientVars

CacheGetAnswered == CacheGetAt("getWait")

CacheSetIssue ==
    /\ ft.pc = "set"
    /\ ft' = [ft EXCEPT !.pc = "setWait"]
    /\ UNCHANGED << cacheVars, rlc, px >>
    /\ UNCHANGED clientVars

CacheSetAnswered == CacheSetAt("setWait")

\* The steps the program takes by itself once their await has resolved;
\* queryFn is among them (it is assumed to return).
HangProgramStep ==
    \/ FetchGetUser
    \/ FetchIpGuard
    \/ FetchUserGuard
    \/ CacheGetIssue
    \/ FetchQuery
    \/ CacheSetIssue
    \/ FetchReturn

\* What the store and the rest of the world do, or do not do.
HangEnvironmentStep ==
    \/ FetchBegin
    \/ CacheGetAnswered
    \/ CacheSetAnswered
    \/ CounterBurst
    \/ CacheCorrupted
    \/ DbWrite

HangNext ==
    \/ HangProgramStep
    \/ HangEnvironmentStep

HangInit ==
    /\ cipherPc = "idle"
    /\ cipherIn = <<>>
    /\ cipherKey = NoKey
    /\ cipherBlob = <<>>
    /\ cipherDecKey = NoKey
    /\ cipherOut = NoResult
    /\ sessionKey = NoKey
    /\ lsKey = Absent
    /\ lsSalt = Absent
    /\ storageAvailable = TRUE
    /\ setPc = "idle"
    /\ setArgs = [key |-> NoKey, salt |-> <<>>]
    /\ rsPc = "idle"
    /\ rsRaw = <<>>
    /\ rsCaller = "none"
    /\ fc = NoCall
    /\ restoreRet = "none"
    /\ lastSet = NoSet
    /\ reloaded = FALSE
    /\ loggedOut = "no"
    /\ mounted = FALSE
    /\ layoutPc = "unmounted"
    /\ cancelled = FALSE
    /\ authLoading = TRUE
    /\ storeUser = FALSE
    /\ dataLoaded = [e \in LoaderEntities |-> FALSE]
    /\ queryPc = [e \in LoaderEntities |-> "idle"]
    /\ xpPc = "idle"
    /\ layoutRestored = FALSE
    /\ now = 0
    /\ stores = [s \in {"mem", "remote"} |-> EmptyStore]
    /\ redisUrl = TRUE
    /\ dead = FALSE
    /\ db = [e \in CacheEntities |-> [u \in UserIds |-> <<>>]]
    /\ cq = [c \in Callers |-> IdleCall]
    /\ inv = IdleInv
    /\ firstMiss = NoMiss
    /\ h = NoHandler
    /\ ft = NoFetch
    /\ rlc = NoRateCall
    /\ px = NoProxyCall
    /\ xp = NoXp
    /\ mut = NoMutation
    /\ conn = NoConnection
    /\ iso = NoIsolation
    /\ auth = NoAuth

\* The event loop runs a continuation that is ready; nothing obliges the
\* store to answer.
SpecHang == HangInit /\ [][HangNext]_vars /\ WF_vars(HangProgramStep)

\* C25: a cachedQuery call that has asked the store for the cached value
\* eventually returns, whether or not the store ever answers.
C25_EventuallyReturns ==
    (ft.pc = "getWait") ~> (ft.pc = "done")

\* C26: when clearSessionKey() ran while a restoreSessionKey() call was
\* suspended at its key import, no key is resident once that call has
\* finished. A call suspended at the import with the persisted key gone and
\* no key resident is such a call: it started from a persisted key, and only
\* clearSessionKey removes that entry and the resident key.
C26_ClearDuringRestore ==
    [][ (/\ rsPc = "import"
         /\ rsPc' = "idle"
         /\ setPc = "idle"
         /\ storageAvailable
         /\ lsKey = Absent
         /\ sessionKey = NoKey)
            => sessionKey' = NoKey ]_vars

\* C27: when clearSessionKey() ran while a setSessionKey() call was
\* suspended at its key export, durable storage holds neither the exported
\* key nor the salt once that call has finished. A call suspended at the
\* export with no key resident is such a call: setSessionKey made its key
\* resident before it suspended, and only clearSessionKey drops it.
C27_ClearDuringSet ==
    [][ (/\ setPc = "export"
         /\ setPc' = "idle"
         /\ rsPc = "idle"
         /\ storageAvailable
         /\ sessionKey = NoKey
         /\ lsKey = Absent
         /\ lsSalt = Absent)
            => (lsKey' = Absent /\ lsSalt' = Absent) ]_vars

\* ------------------------------------------------- sign-in on a shared device
\* Two accounts use one browser. auth.user is the account of the Supabase
\* session; auth.pc is "idle" on the login page, "profile" and "setKey" in
\* handleLogin, "app" once an (app) route is being entered, "restoring" in
\* loadProfile's restoreSessionKey, "ready" after setUser(profile).
Users == {"A", "B"}

\* deriveKey(password, salt) of each account.
KeyOf(u) == IF u = "A" THEN RawKey(17) ELSE RawKey(34)

notSessionAuth == << cipherVars, startupVars, cacheVars, h, serverCallVars, xp, mut, conn, iso >>

\* handleLogin: signInWithPassword succeeds (part_005:22-29).
LoginSignIn ==
    \E u \in Users :
        /\ auth = NoAuth
        /\ setPc = "idle"
        /\ rsPc = "idle"
        /\ auth' = [user |-> u, pc |-> "profile"]
        /\ UNCHANGED << sessionVars, notSessionAuth >>

\* handleLogin: the profile's encryption_salt is read; with a salt the key
\* is derived and setSessionKey runs up to its export, and without one (no
\* row returned, no salt in it) the page goes on to /dashboard
\* (part_005:32-45, crypto.ts:89-95).
LoginProfile ==
    \E salted \in BOOLEAN :
        /\ auth.pc = "profile"
        /\ IF salted
           THEN /\ sessionKey' = KeyOf(auth.user)
                /\ setArgs' = [key |-> KeyOf(auth.user), salt |-> SaltOf(KeyOf(auth.user))]
                /\ setPc' = "export"
                /\ auth' = [auth EXCEPT !.pc = "setKey"]
           ELSE /\ auth' = [auth EXCEPT !.pc = "app"]
                /\ UNCHANGED << sessionKey, setArgs, setPc >>
        /\ UNCHANGED << lsKey, lsSalt, storageAvailable, rsPc, rsRaw, rsCaller, fc, obsVars >>
        /\ UNCHANGED notSessionAuth

\* handleLogin: setSessionKey finishes, then router.push("/dashboard")
\* (crypto.ts:95-101, part_005:41-45).
LoginKeyStored ==
    \E w \in PersistWrites(storageAvailable) :
        /\ auth.pc = "setKey"
        /\ setPc = "export"
        /\ lsKey' = IF w \in {"both", "key"} THEN PersistedKeyValue(setArgs) ELSE lsKey
        /\ lsSalt' = IF w = "both" THEN Btoa(setArgs.salt) ELSE lsSalt
        /\ setPc' = "idle"
        /\ auth' = [auth EXCEPT !.pc = "app"]
        /\ UNCHANGED << sessionKey, storageAvailable, setArgs, rsPc, rsRaw, rsCaller, fc,
                        obsVars >>
        /\ UNCHANGED notSessionAuth

\* AppLayout.loadProfile: `await restoreSessionKey()` up to its import, or
\* through to setUser(profile) when it returns at once (part_003:403-417).
LoadProfileRestore ==
    /\ auth.pc = "app"
    /\ rsPc = "idle"
    /\ IF RestoreStart = "import"
       THEN /\ rsPc' = "import"
            /\ rsRaw' = Atob(lsKey).bytes
            /\ rsCaller' = "layout"
            /\ auth' = [auth EXCEPT !.pc = "restoring"]
       ELSE /\ auth' = [auth EXCEPT !.pc = "ready"]
            /\ UNCHANGED << rsPc, rsRaw, rsCaller >>
    /\ UNCHANGED << storeVars, setPc, setArgs, fc, obsVars >>
    /\ UNCHANGED notSessionAuth

\* The import settles and loadProfile sets the user (crypto.ts:112-122).
LoadProfileRestored ==
    /\ auth.pc = "restoring"
    /\ rsPc = "import"
    /\ sessionKey' = KeyAfterRestoreEnd
    /\ rsPc' = "idle"
    /\ rsRaw' = <<>>
    /\ rsCaller' = "none"
    /\ auth' = [auth EXCEPT !.pc = "ready"]
    /\ UNCHANGED << lsKey, lsSalt, storageAvailable, setPc, setArgs, fc, obsVars >>
    /\ UNCHANGED notSessionAuth

\* handleLogout: signOut, clearSessionKey, back to the login page
\* (part_003:461-469).
LoginLogout ==
    /\ auth.pc = "ready"
    /\ clearSessionKey
    /\ auth' = NoAuth
    /\ UNCHANGED notSessionAuth

\* The page is loaded anew while the account is signed in: the request
\* proxy sends a signed-in visitor of an /auth page on to /dashboard; the
\* page's JavaScript state is gone, localStorage is not.
LoginReload ==
    /\ auth.user # "none"
    /\ DropPageState
    /\ auth' = [auth EXCEPT !.pc = "app"]
    /\ UNCHANGED notSessionAuth

\* The sign-in ends without handleLogout (it expires or is revoked) and the
\* next page load lands on the login page.
LoginExpired ==
    /\ auth.user # "none"
    /\ DropPageState
    /\ auth' = NoAuth
    /\ UNCHANGED notSessionAuth

LoginNext ==
    \/ LoginSignIn
    \/ LoginProfile
    \/ LoginKeyStored
    \/ LoadProfileRestore
    \/ LoadProfileRestored
    \/ LoginLogout
    \/ LoginReload
    \/ LoginExpired

LoginInit ==
    /\ cipherPc = "idle"
    /\ cipherIn = <<>>
    /\ cipherKey = NoKey
    /\ cipherBlob = <<>>
    /\ cipherDecKey = NoKey
    /\ cipherOut = NoResult
    /\ sessionKey = NoKey
    /\ lsKey = Absent
    /\ lsSalt = Absent
    /\ storageAvailable = TRUE
    /\ setPc = "idle"
    /\ setArgs = [key |-> NoKey, salt |-> <<>>]
    /\ rsPc = "idle"
    /\ rsRaw = <<>>
    /\ rsCaller = "none"
    /\ fc = NoCall
    /\ restoreRet = "none"
    /\ lastSet = NoSet
    /\ reloaded = FALSE
    /\ loggedOut = "no"
    /\ mounted = FALSE
    /\ layoutPc = "unmounted"
    /\ cancelled = FALSE
    /\ authLoading = TRUE
    /\ storeUser = FALSE
    /\ dataLoaded = [e \in LoaderEntities |-> FALSE]
    /\ queryPc = [e \in LoaderEntities |-> "idle"]
    /\ xpPc = "idle"
    /\ layoutRestored = FALSE
    /\ now = 0
    /\ stores = [s \in {"mem", "remote"} |-> EmptyStore]
    /\ redisUrl = FALSE
    /\ dead = FALSE
    /\ db = [e \in CacheEntities |-> [u \in UserIds |-> <<>>]]
    /\ cq = [c \in Callers |-> IdleCall]
    /\ inv = IdleInv
    /\ firstMiss = NoMiss
    /\ h = NoHandler
    /\ ft = NoFetch
    /\ rlc = NoRateCall
    /\ px = NoProxyCall
    /\ xp = NoXp
    /\ mut = NoMutation
    /\ conn = NoConnection
    /\ iso = NoIsolation
    /\ auth = NoAuth

SpecLogin == LoginInit /\ [][LoginNext]_vars

\* C29: whenever an account is signed in, its sign-in handler has finished
\* and a key is resident - before or after the layout's restoreSessionKey -
\* the resident key is the key derived for that account.
C29_ResidentKeyIsUsers ==
    (auth.pc \in {"app", "ready"} /\ sessionKey # NoKey) => sessionKey = KeyOf(auth.user)

\* ------------------------------------------------ fetches of several users
\* Each signed-in user runs one fetcher at a time through withAuth, which
\* hands the core fetcher the user id getUserId resolved (part_005:473-483);
\* the cachedQuery calls of different users interleave at their awaits.
\* iso.owner remembers for whom each cache entry was written.

\* The rows each user has persisted.
IsoRows(u) == IF u = U1 THEN << 1, 2 >> ELSE << 2, 1 >>

\* The cachedQuery calls a user's fetchers make.
ShapesOf(u) == { q \in QueryShapes : q.user = u }

Contains(str, part) ==
    \E i \in 0..(Len(str) - Len(part)) : SubSeq(str, i + 1, i + Len(part)) = part

\* cachedQuery up to the answer of redis.get (part_005:459-463).
IsoFetchBegin(u) ==
    \E q \in ShapesOf(u) :
        LET r == memGet(stores["mem"], q.key, now)
            hit == Truthy(r.ret) /\ Parse(r.ret.str).ok
        IN  /\ iso.calls[u].pc = "idle"
            /\ stores' = [stores EXCEPT !["mem"] = r.store]
            /\ iso' = [iso EXCEPT !.calls[u] =
                         [pc |-> IF hit THEN "done" ELSE "query",
                          entity |-> q.entity, key |-> q.key, hit |-> hit,
                          from |-> IF hit THEN iso.owner[q.key] ELSE <<>>,
                          result |-> IF hit THEN Parse(r.ret.str).val ELSE <<>>]]
            /\ UNCHANGED << now, redisUrl, dead, db, cq, inv, firstMiss >>
            /\ UNCHANGED << xp, mut, conn, auth >>
            /\ UNCHANGED besidesCache

\* queryFn: the rows with user_id = userId (part_005:489-493).
IsoFetchQuery(u) ==
    /\ iso.calls[u].pc = "query"
    /\ iso' = [iso EXCEPT !.calls[u].pc = "set",
                          !.calls[u].result = db[iso.calls[u].entity][u]]
    /\ UNCHANGED cacheVars
    /\ UNCHANGED << xp, mut, conn, auth >>
    /\ UNCHANGED besidesCache

\* redis.set(cacheKey, JSON.stringify(result), "EX", TTL[entity])
\* (part_005:467).
IsoFetchSet(u) ==
    LET c == iso.calls[u]
        r == memSet(stores["mem"], c.key, Stringify(c.result), TTL(c.entity), now)
    IN  /\ c.pc = "set"
        /\ stores' = [stores EXCEPT !["mem"] = r.store]
        /\ iso' = [iso EXCEPT !.calls[u].pc = "done", !.owner[c.key] = u]
        /\ UNCHANGED << now, redisUrl, dead, db, cq, inv, firstMiss >>
        /\ UNCHANGED << xp, mut, conn, auth >>
        /\ UNCHANGED besidesCache

\* The fetcher returns to the user's page.
IsoFetchReturn(u) ==
    /\ iso.calls[u].pc = "done"
    /\ iso' = [iso EXCEPT !.calls[u] = NoIsoCall]
    /\ UNCHANGED cacheVars
    /\ UNCHANGED << xp, mut, conn, auth >>
    /\ UNCHANGED besidesCache

\* invalidateEntity of a user evicts what its pattern matches
\* (part_005:613-618).
IsoInvalidate(u) ==
    \E e \in CacheEntities :
        LET ks == memKeys(stores["mem"], InvalidationPattern(e, u), now)
            r == memDel(ks.store, ks.ret)
        IN  /\ ks.ret # {}
            /\ stores' = [stores EXCEPT !["mem"] = r.store]
            /\ iso' = [iso EXCEPT !.owner = [k \in CacheKeys |->
                                               IF k \in ks.ret THEN <<>> ELSE iso.owner[k]]]
            /\ UNCHANGED << now, redisUrl, dead, db, cq, inv, firstMiss >>
            /\ UNCHANGED << xp, mut, conn, auth >>
            /\ UNCHANGED besidesCache

IsolationNext ==
    \/ \E u \in UserIds : IsoFetchBegin(u)
    \/ \E u \in UserIds : IsoFetchQuery(u)
    \/ \E u \in UserIds : IsoFetchSet(u)
    \/ \E u \in UserIds : IsoFetchReturn(u)
    \/ \E u \in UserIds : IsoInvalidate(u)

IsolationInit ==
    /\ cipherPc = "idle"
    /\ cipherIn = <<>>
    /\ cipherKey = NoKey
    /\ cipherBlob = <<>>
    /\ cipherDecKey = NoKey
    /\ cipherOut = NoResult
    /\ sessionKey = NoKey
    /\ lsKey = Absent
    /\ lsSalt = Absent
    /\ storageAvailable = TRUE
    /\ setPc = "idle"
    /\ setArgs = [key |-> NoKey, salt |-> <<>>]
    /\ rsPc = "idle"
    /\ rsRaw = <<>>
    /\ rsCaller = "none"
    /\ fc = NoCall
    /\ restoreRet = "none"
    /\ lastSet = NoSet
    /\ reloaded = FALSE
    /\ loggedOut = "no"
    /\ mounted = FALSE
    /\ layoutPc = "unmounted"
    /\ cancelled = FALSE
    /\ authLoading = TRUE
    /\ storeUser = FALSE
    /\ dataLoaded = [e \in LoaderEntities |-> FALSE]
    /\ queryPc = [e \in LoaderEntities |-> "idle"]
    /\ xpPc = "idle"
    /\ layoutRestored = FALSE
    /\ now = 0
    /\ stores = [s \in {"mem", "remote"} |-> EmptyStore]
    /\ redisUrl = FALSE
    /\ dead = FALSE
    /\ db = [e \in CacheEntities |-> [u \in UserIds |-> IsoRows(u)]]
    /\ cq = [c \in Callers |-> IdleCall]
    /\ inv = IdleInv
    /\ firstMiss = NoMiss
    /\ h = NoHandler
    /\ ft = NoFetch
    /\ rlc = NoRateCall
    /\ px = NoProxyCall
    /\ xp = NoXp
    /\ mut = NoMutation
    /\ conn = NoConnection
    /\ iso = NoIsolation
    /\ auth = NoAuth

SpecIsolation == IsolationInit /\ [][IsolationNext]_vars

\* C30: a fetch made for user U reads and writes a cache key that contains
\* U's id, and when it is answered from the cache the entry was written by
\* a fetch of U and the records returned are U's rows - whatever fetches of
\* other users run in between.
C30_FetchIsolation ==
    \A u \in UserIds :
        iso.calls[u].pc # "idle" =>
            /\ Contains(iso.calls[u].key, u)
            /\ iso.calls[u].hit =>
                  /\ iso.calls[u].from = u
                  /\ iso.calls[u].result = db[iso.calls[u].entity][u]

C30_Witness ==
    /\ iso.calls[U12].pc = "done"
    /\ iso.calls[U12].hit
    /\ iso.calls[U12].result = IsoRows(U12)
    /\ iso.owner[TasksKey(U1, "50", "0")] = U1
    /\ iso.calls[U1].pc = "set"

====
